---- MODULE Spec2Model ----
(***************************************************************************)
(* A model of the work-distribution and risk-detection pipeline of         *)
(* yaki-tamir-levy/landbot-runner.                                         *)
(*                                                                         *)
(*   SpecQueue   the queue driver (scripts/process_queue_worker.mjs), the  *)
(*               reconcile step (scripts/reconcile_new_to_queue.mjs) and   *)
(*               the process_queue table they share.                       *)
(*   SpecReview  the writers of risk_reviews: the full scans               *)
(*               (scripts/risk-scan.mjs, the PATTERN ONLY scanner), the    *)
(*               edge function's scan_incremental and update_risk_status,  *)
(*               over an unchanged users_tzvira.                           *)
(*   SpecIncr    scan_incremental runs, one at a time, and the watermark   *)
(*               risk_scan_state.last_time_key, while users_tzvira grows.  *)
(*   SpecText    one conversation record, its transcript drawn line by     *)
(*               line, through each scanner: risk-scan.mjs (both mains),   *)
(*               scanIncremental, risk_scan_build_payload.mjs.             *)
(*   SpecNorm    the normalisation functions applied twice to a string.    *)
(*   SpecSnippet the snippet functions applied to a match in a text.       *)
(*   SpecRules   a risk_phrases table through the ruleset loaders of        *)
(*               risk-scan.mjs and of the edge function, then the scan.    *)
(*   SpecReconcile  reconcile_new_to_queue.mjs with failing inserts.         *)
(*   SpecPost    one run of postprocess_short_summarized_worker.mjs.       *)
(*   SpecOverlap scan_incremental runs that overlap.                        *)
(*   SpecIncrFail  SpecIncr with bulk inserts that may fail.                *)
(*   SpecTotal   two invocations of process_users_total.mjs over the same  *)
(*               users_total rows.                                         *)
(*   SpecStatus  scan_incremental runs and update_risk_status calls.       *)
(*   SpecCompile scan_incremental with patterns that may not compile.      *)
(*   SpecMatch   the match loops over one text, turn by turn.              *)
(*   SpecHandler the request handler of the edge function.                 *)
(***************************************************************************)
EXTENDS Integers, Sequences, FiniteSets, TLC

(***************************************************************************)
(* Bounds of the model.                                                    *)
(***************************************************************************)
\* rows of users_total
NumUsersTotal == 2
\* rows process_queue may hold (the reconcile insert is capped here)
MaxQueue == 2
\* process.env.MAX_JOBS_PER_RUN (process_queue_worker.mjs:29, default "50")
MAX_JOBS_PER_RUN == 2
\* store calls that report an error in one behaviour
MaxFaults == 1

\* params.limit of a scan_incremental request (part_009:174, default 200)
MaxLimit == 2
\* rows users_tzvira may hold
MaxUsersRows == 3
\* the largest time key of a users_tzvira row
MaxTime == 2
\* update_risk_status calls in one behaviour
MaxReviews == 1
\* update_risk_status calls in one behaviour of SpecStatus
MaxStatusCalls == 2
\* iterations of a match loop that are followed
MaxIters == 6
\* lines of a drawn transcript
MaxLines == 3
\* characters of a drawn string
MaxChars == 3
\* words of a drawn subject text
MaxWords == 4
\* words (or characters) of context asked for on each side of a match
MaxN == 2
\* rows of a drawn risk_phrases table
MaxPhrases == 2
\* process.env.MAX_ITEMS (process_users_total.mjs:25, default "20")
MAX_ITEMS == 1
\* rows of users_total_postprocess_queue
MaxTasks == 3
\* MAX_TASKS_PER_RUN of the postprocess worker (part_002:213, there 10)
MAX_TASKS_PER_RUN == 3

\* the worker processes started against the same queue
Workers == {1, 2}
\* the scans that may run at the same time
Scanners == {1, 2}
\* the invocations of process_users_total.mjs that may run at the same time
Runs == {1, 2}
UTIds == 1..NumUsersTotal
JobIds == 1..MaxQueue

Min(S) == CHOOSE x \in S : \A y \in S : x <= y

VARIABLES
  \* ---- the store ----
  users_total,     \* users_total.processed, by id
  process_queue,   \* sequence of rows [users_total_id, status, last_error]; id = index
  faults,          \* store calls that have reported an error so far
  \* ---- process_queue_worker.mjs, one main() per worker ----
  wpc,             \* position of main()
  wi,              \* the loop counter i
  wjob,            \* job = [id, users_total_id] of the current iteration (id 0: none)
  wtriggered,      \* triggered
  wcount,          \* processedCount
  wfail,           \* which call's exception left main(): "none", "claim", "finish"
  \* ---- reconcile_new_to_queue.mjs ----
  rpc, rrows, rinserted, rskipped, rfound,
  \* ---- history, for the properties ----
  claimedBy,       \* per job id: the workers claimOne() returned it to, in order
  emptyClaims,     \* per worker: claimOne() calls that returned an empty result
  badEmpty,        \* some claimOne() returned empty while a NEW job existed
  finishLog,       \* per job id: the finishQueue calls made, [w, status, ok]
  childFailed      \* per job id: its child process failed (non-zero exit / spawn error)

queueVars == <<users_total, process_queue, faults, wpc, wi, wjob, wtriggered, wcount,
               wfail, rpc, rrows, rinserted, rskipped, rfound,
               claimedBy, emptyClaims, badEmpty, finishLog, childFailed>>

VARIABLES
  \* ---- the store ----
  users_tzvira,    \* sequence of rows [time, phone, name, text], by ascending time
  risk_reviews,    \* sequence of rows, in insertion order
  last_time_key,   \* risk_scan_state.last_time_key of the row id = 1
  nreviews,        \* update_risk_status calls so far (also the clock of reviewed_at)
  \* ---- one scan per scanner ----
  spc,             \* position: idle, upsert, exists, insert, fetch, save, done, exit1
  svar,            \* which scanner runs: none, fix4, pattern_only, edge
  swork,           \* the payloads still to be written
  sstart,          \* startedWatermark
  sbatch,          \* batch, as indices into users_tzvira
  swm,             \* watermark
  swrote,          \* the scan_incremental run has issued a write to the store
  \* ---- history, for the properties ----
  safter,          \* the run started after a run of the same full scan had completed
  doneOnce,        \* the full scans that have completed a run
  scanned,         \* the users_tzvira rows some scan_incremental batch has held
  ignoredDecided,  \* an upsert met an item already set to reviewed or dismissed
  leftBehind       \* a saved watermark passed a record that no batch has held

scanVars == <<users_tzvira, risk_reviews, last_time_key, nreviews, spc, svar, swork, sstart,
              sbatch, swm, swrote, safter, doneOnce, scanned,
              ignoredDecided, leftBehind>>

VARIABLES
  \* ---- one piece of text through the text functions ----
  tin,             \* the input drawn
  tpc,             \* position: off, drawn, then the function applied
  tres             \* what the function returned

textVars == <<tin, tpc, tres>>

VARIABLES
  \* ---- process_users_total.mjs, one main() per invocation ----
  pvariant,        \* the script run: "single" (NEW only) or "split" (risk splitting)
  ppc,             \* position of main()
  prows,           \* rows, the ids the listing returned
  pidx,            \* the loop position in rows
  \* ---- history, for the properties ----
  pskipped,        \* <<run, row>>: the claim returned 0 rows and the row was skipped
  pcalled,         \* <<run, row>>: OpenAI was called for the row by the run
  pwrote,          \* per run and row: the processed values its PATCHes stored, in order
  pinserted        \* <<run, row, table>>: the run inserted for the row into the table

totalVars == <<pvariant, ppc, prows, pidx, pskipped, pcalled, pwrote, pinserted>>

VARIABLES
  \* ---- postprocess_short_summarized_worker.mjs, one main() ----
  post_queue,      \* users_total_postprocess_queue.status, by queue id
  qpc,             \* position of main()
  qprocessed,      \* processed
  qtask,           \* queueId of the task picked (0: none)
  exitCode,        \* process.exitCode
  \* ---- history, for the properties ----
  qfailed,         \* the queue ids whose handling threw
  qmarkFailed,     \* the queue ids whose ERROR mark could not be written
  qwhy             \* why main() ended: "none", "empty", "cap", "rpc"

postVars == <<post_queue, qpc, qprocessed, qtask, exitCode, qfailed, qmarkFailed, qwhy>>

vars == <<queueVars, scanVars, textVars, totalVars, postVars>>

NoJob == [id |-> 0, users_total_id |-> 0]

(***************************************************************************)
(* The store's procedures for process_queue.  Their SQL is not part of the *)
(* sources; they are modelled from the specification's section 4.1.        *)
(***************************************************************************)
\* claim: the oldest NEW job becomes PROCESSING and is returned; none: empty
fn_process_queue_claim_one(q) ==
  LET news == {j \in DOMAIN q : q[j].status = "NEW"} IN
  IF news = {} THEN [queue |-> q, data |-> NoJob]
  ELSE LET j == Min(news) IN
       [queue |-> [q EXCEPT ![j].status = "PROCESSING"],
        data  |-> [id |-> j, users_total_id |-> q[j].users_total_id]]

\* finish: a PROCESSING job becomes p_status; any other job: a reported failure
fn_process_queue_finish(q, p_queue_id, p_status, p_last_error) ==
  IF p_queue_id \in DOMAIN q /\ q[p_queue_id].status = "PROCESSING"
  THEN [queue |-> [q EXCEPT ![p_queue_id].status = p_status,
                            ![p_queue_id].last_error = p_last_error],
        error |-> FALSE]
  ELSE [queue |-> q, error |-> TRUE]

(***************************************************************************)
(* process_queue_worker.mjs                                                *)
(***************************************************************************)
\* a claimOne that only reads the oldest NEW job and does not flip it
claimOne_SelectOnly(q, fault) ==
  IF fault THEN [threw |-> TRUE, queue |-> q, data |-> NoJob]
  ELSE [threw |-> FALSE, queue |-> q, data |-> fn_process_queue_claim_one(q).data]

\* claimOne(): the rpc; an error makes it throw, otherwise its data is returned
claimOne(q, fault) ==
  IF fault THEN [threw |-> TRUE, queue |-> q, data |-> NoJob]
  ELSE LET r == fn_process_queue_claim_one(q) IN
       [threw |-> FALSE, queue |-> r.queue, data |-> r.data]

\* finishQueue(): the rpc; an error (transient, or reported by the procedure) throws
finishQueue(q, queueId, status, lastError, fault) ==
  IF fault THEN [threw |-> TRUE, queue |-> q]
  ELSE LET r == fn_process_queue_finish(q, queueId, status, lastError) IN
       [threw |-> r.error, queue |-> r.queue]

\* a store call either takes effect or reports an error (and then changes nothing)
Faulty == IF faults < MaxFaults THEN BOOLEAN ELSE {FALSE}

Bump(fault) == IF fault THEN faults + 1 ELSE faults

unchangedReconcile == UNCHANGED <<rpc, rrows, rinserted, rskipped, rfound>>

\* the locals of main() are gone once the process has ended
Ended(w, how) ==
  /\ wpc' = [wpc EXCEPT ![w] = how]
  /\ wi' = [wi EXCEPT ![w] = 0]
  /\ wjob' = [wjob EXCEPT ![w] = NoJob]
  /\ wtriggered' = [wtriggered EXCEPT ![w] = FALSE]
  /\ wcount' = [wcount EXCEPT ![w] = 0]

\* a loop without the iteration cap
LoopTest_NoCap(i) == TRUE

\* main(), line 117: i < MAX_JOBS_PER_RUN
LoopTest(i) == i < MAX_JOBS_PER_RUN

\* main(), lines 117-119: the loop test, const job = await claimOne(), the break;
\* a throw of claimOne leaves main() and reaches main().catch (149-152): exit code 1
WorkerClaim(w) ==
  /\ wpc[w] = "claim"
  /\ LoopTest(wi[w])
  /\ \E fault \in Faulty :
       LET r == claimOne(process_queue, fault) IN
       /\ faults' = Bump(fault)
       /\ process_queue' = r.queue
       /\ IF r.threw
          THEN /\ Ended(w, "exit1")
               /\ wfail' = [wfail EXCEPT ![w] = "claim"]
               /\ UNCHANGED <<claimedBy, emptyClaims, badEmpty>>
          ELSE IF r.data.id = 0
          THEN /\ wpc' = [wpc EXCEPT ![w] = "summary"]
               /\ emptyClaims' = [emptyClaims EXCEPT ![w] = @ + 1]
               /\ badEmpty' = (badEmpty \/ \E j \in DOMAIN process_queue :
                                              process_queue[j].status = "NEW")
               /\ UNCHANGED <<wi, wjob, wtriggered, wcount, wfail, claimedBy>>
          ELSE /\ wpc' = [wpc EXCEPT ![w] = "run"]
               /\ wjob' = [wjob EXCEPT ![w] = r.data]
               /\ claimedBy' = [claimedBy EXCEPT ![r.data.id] = Append(@, w)]
               /\ UNCHANGED <<wi, wtriggered, wcount, wfail, emptyClaims, badEmpty>>
  /\ UNCHANGED <<users_total, finishLog, childFailed>>
  /\ unchangedReconcile

\* main(), line 117: i has reached MAX_JOBS_PER_RUN, the loop ends
WorkerCap(w) ==
  /\ wpc[w] = "claim"
  /\ ~LoopTest(wi[w])
  /\ wpc' = [wpc EXCEPT ![w] = "summary"]
  /\ UNCHANGED <<users_total, process_queue, faults, wi, wjob, wtriggered, wcount,
                 wfail, claimedBy, emptyClaims, badEmpty, finishLog, childFailed>>
  /\ unchangedReconcile

\* how the child process ended, and what it had done to its users_total row
ChildOutcomes == {"exit0_done", "exit0_error", "exit_nonzero", "spawn_error"}

\* runProcessUsersTotalOnlyId(): resolves on exit code 0, rejects otherwise
runProcessUsersTotalOnlyId(outcome) ==
  [rejected |-> outcome \in {"exit_nonzero", "spawn_error"},
   processed |-> CASE outcome = "exit0_done"  -> "DONE"
                   [] outcome = "exit0_error" -> "ERROR"
                   [] OTHER -> "NEW"]

\* a main() whose dispatch is not wrapped in its own try: a failed dispatch
\* goes to the catch like a failed child
WorkerRunChild_DispatchThrows(w) ==
  /\ wpc[w] = "run"
  /\ \E outcome \in ChildOutcomes, dispatched \in BOOLEAN :
       LET r == runProcessUsersTotalOnlyId(outcome)
           u == wjob[w].users_total_id
           thrown == r.rejected \/ (~wtriggered[w] /\ ~dispatched) IN
       /\ users_total' = [users_total EXCEPT
                            ![u] = IF @ = "NEW" THEN r.processed ELSE @]
       /\ childFailed' = [childFailed EXCEPT ![wjob[w].id] = r.rejected]
       /\ wtriggered' = [wtriggered EXCEPT
                           ![w] = IF r.rejected THEN @ ELSE (@ \/ dispatched)]
       /\ wpc' = [wpc EXCEPT ![w] = IF thrown THEN "finishError" ELSE "finishDone"]
  /\ UNCHANGED <<process_queue, faults, wi, wjob, wcount, wfail,
                 claimedBy, emptyClaims, badEmpty, finishLog>>
  /\ unchangedReconcile

\* main(), lines 124-134 and 139: the child runs; a rejection goes to the catch;
\* after a success the workflow is dispatched until one dispatch of the run has
\* succeeded, a failed dispatch being logged and dropped
WorkerRunChild(w) ==
  /\ wpc[w] = "run"
  /\ \E outcome \in ChildOutcomes, dispatched \in BOOLEAN :
       LET r == runProcessUsersTotalOnlyId(outcome)
           u == wjob[w].users_total_id IN
       /\ users_total' = [users_total EXCEPT
                            ![u] = IF @ = "NEW" THEN r.processed ELSE @]
       /\ childFailed' = [childFailed EXCEPT ![wjob[w].id] = r.rejected]
       /\ wtriggered' = [wtriggered EXCEPT
                           ![w] = IF r.rejected THEN @ ELSE (@ \/ dispatched)]
       /\ wpc' = [wpc EXCEPT ![w] = IF r.rejected THEN "finishError" ELSE "finishDone"]
  /\ UNCHANGED <<process_queue, faults, wi, wjob, wcount, wfail,
                 claimedBy, emptyClaims, badEmpty, finishLog>>
  /\ unchangedReconcile

\* main(), lines 136-138: finishQueue(queueId, "DONE"); a throw goes to the catch
WorkerFinishDone(w) ==
  /\ wpc[w] = "finishDone"
  /\ \E fault \in Faulty :
       LET r == finishQueue(process_queue, wjob[w].id, "DONE", "null", fault) IN
       /\ faults' = Bump(fault)
       /\ process_queue' = r.queue
       /\ finishLog' = [finishLog EXCEPT ![wjob[w].id] =
                          Append(@, [w |-> w, status |-> "DONE", ok |-> ~r.threw])]
       /\ IF r.threw
          THEN /\ wpc' = [wpc EXCEPT ![w] = "finishError"]
               /\ UNCHANGED <<wi, wjob, wcount>>
          ELSE /\ wpc' = [wpc EXCEPT ![w] = "claim"]
               /\ wi' = [wi EXCEPT ![w] = @ + 1]
               /\ wjob' = [wjob EXCEPT ![w] = NoJob]
               /\ wcount' = [wcount EXCEPT ![w] = @ + 1]
  /\ UNCHANGED <<users_total, wtriggered, wfail,
                 claimedBy, emptyClaims, badEmpty, childFailed>>
  /\ unchangedReconcile

\* main(), lines 139-143: the catch, finishQueue(queueId, "ERROR", msg); a throw
\* here leaves main() and reaches main().catch (lines 149-152): exit code 1
WorkerFinishError(w) ==
  /\ wpc[w] = "finishError"
  /\ \E fault \in Faulty :
       LET r == finishQueue(process_queue, wjob[w].id, "ERROR", "msg", fault) IN
       /\ faults' = Bump(fault)
       /\ process_queue' = r.queue
       /\ finishLog' = [finishLog EXCEPT ![wjob[w].id] =
                          Append(@, [w |-> w, status |-> "ERROR", ok |-> ~r.threw])]
       /\ IF r.threw
          THEN /\ Ended(w, "exit1")
               /\ wfail' = [wfail EXCEPT ![w] = "finish"]
          ELSE /\ wpc' = [wpc EXCEPT ![w] = "claim"]
               /\ wi' = [wi EXCEPT ![w] = @ + 1]
               /\ wjob' = [wjob EXCEPT ![w] = NoJob]
               /\ UNCHANGED <<wtriggered, wcount, wfail>>
  /\ UNCHANGED <<users_total, claimedBy, emptyClaims, badEmpty, childFailed>>
  /\ unchangedReconcile

\* main(), line 146: the summary line is printed and the process ends with code 0
WorkerSummary(w) ==
  /\ wpc[w] = "summary"
  /\ Ended(w, "exit0")
  /\ UNCHANGED <<users_total, process_queue, faults, wfail,
                 claimedBy, emptyClaims, badEmpty, finishLog, childFailed>>
  /\ unchangedReconcile

\* a store that, when a worker dies, finishes the job it holds as ERROR
WorkerKill_MarksError(w) ==
  /\ wpc[w] \in {"run", "finishDone", "finishError"}
  /\ Ended(w, "killed")
  /\ process_queue' = [process_queue EXCEPT ![wjob[w].id].status = "ERROR"]
  /\ UNCHANGED <<users_total, faults, wfail,
                 claimedBy, emptyClaims, badEmpty, finishLog, childFailed>>
  /\ unchangedReconcile

\* the worker process is killed while it holds a claimed job
WorkerKill(w) ==
  /\ wpc[w] \in {"run", "finishDone", "finishError"}
  /\ Ended(w, "killed")
  /\ UNCHANGED <<users_total, process_queue, faults, wfail,
                 claimedBy, emptyClaims, badEmpty, finishLog, childFailed>>
  /\ unchangedReconcile

(***************************************************************************)
(* reconcile_new_to_queue.mjs                                              *)
(***************************************************************************)
\* the partial unique index the insert relies on (lines 5-6 and 41): at most
\* one active (NEW or PROCESSING) job per users_total_id
ActiveJobExists(q, u) ==
  \E j \in DOMAIN q : q[j].users_total_id = u /\ q[j].status \in {"NEW", "PROCESSING"}

\* an insert written as an upsert on users_total_id: the existing job is reset
InsertQueueRow_Upsert(q, u) ==
  IF \E j \in DOMAIN q : q[j].users_total_id = u
  THEN LET j == Min({k \in DOMAIN q : q[k].users_total_id = u}) IN
       [queue |-> [q EXCEPT ![j].status = "NEW"], error |-> FALSE]
  ELSE [queue |-> Append(q, [users_total_id |-> u, status |-> "NEW", last_error |-> "null"]),
        error |-> FALSE]

\* lines 42-45: insert({users_total_id, status: "NEW"}).throwOnError()
InsertQueueRow(q, u) ==
  IF ActiveJobExists(q, u)
  THEN [queue |-> q, error |-> TRUE]
  ELSE [queue |-> Append(q, [users_total_id |-> u, status |-> "NEW", last_error |-> "null"]),
        error |-> FALSE]

\* the ids of S in ascending order
RECURSIVE SortedSeq(_)
SortedSeq(S) ==
  IF S = {} THEN <<>> ELSE <<Min(S)>> \o SortedSeq(S \ {Min(S)})

unchangedWorkers == UNCHANGED <<wpc, wi, wjob, wtriggered, wcount, wfail,
                                claimedBy, emptyClaims, badEmpty, finishLog, childFailed>>

\* main(), lines 28-37: select id from users_total where processed = 'NEW'
ReconcileSelect ==
  /\ rpc = "idle"
  /\ rrows' = SortedSeq({u \in UTIds : users_total[u] = "NEW"})
  /\ rfound' = Cardinality({u \in UTIds : users_total[u] = "NEW"})
  /\ rinserted' = 0
  /\ rskipped' = 0
  /\ rpc' = "loop"
  /\ UNCHANGED <<users_total, process_queue, faults>>
  /\ unchangedWorkers

\* main(), lines 39-52: one iteration; any error of the insert counts as skipped
\* (fault: the insert reports an error other than the duplicate)
ReconcileInsert(fault) ==
  /\ rpc = "loop"
  /\ rrows # <<>>
  /\ fault \in Faulty
  /\ LET r == IF fault THEN [queue |-> process_queue, error |-> TRUE]
                ELSE InsertQueueRow(process_queue, Head(rrows)) IN
       /\ Len(r.queue) <= MaxQueue
       /\ faults' = Bump(fault)
       /\ process_queue' = r.queue
       /\ IF r.error
          THEN rskipped' = rskipped + 1 /\ UNCHANGED rinserted
          ELSE rinserted' = rinserted + 1 /\ UNCHANGED rskipped
  /\ rrows' = Tail(rrows)
  /\ UNCHANGED <<users_total, rpc, rfound>>
  /\ unchangedWorkers

\* main(), line 54: the summary line is printed and the process ends
ReconcileDone ==
  /\ rpc = "loop"
  /\ rrows = <<>>
  /\ rpc' = "idle"
  /\ rinserted' = 0 /\ rskipped' = 0 /\ rfound' = 0
  /\ UNCHANGED <<users_total, process_queue, faults, rrows>>
  /\ unchangedWorkers

(***************************************************************************)
(* Text.  A string is a sequence of characters; a character is a one-      *)
(* character string, except that a whole speaker prefix ("המטופל:",        *)
(* "המטפל:", "q:", "a:", "<name>:"), a WhatsApp timestamp "[...]" and an   *)
(* HTML tag are one symbol each.                                           *)
(***************************************************************************)
NL == "\n"
CR == "\r"
TAB == "\t"
\* \s of the regular expressions
Ws == {" ", TAB, NL, CR}
\* [ \t]
Blank == {" ", TAB}
\* U+0591-U+05C7 (niqqud, cantillation), one representative
Niqqud == {"~"}
\* U+200E / U+200F and the other direction marks, one representative
Bidi == {"^"}

Max(a, b) == IF a >= b THEN a ELSE b
Least(a, b) == IF a <= b THEN a ELSE b

\* String.prototype.toLowerCase, on the letters of the model
toLowerCase(s) == [i \in 1..Len(s) |-> IF s[i] = "A" THEN "a" ELSE IF s[i] = "B" THEN "b" ELSE s[i]]

\* s.replace(/[cls]/g, "")
Remove(s, cls) == SelectSeq(s, LAMBDA c : c \notin cls)

RECURSIVE TrimLeft(_)
TrimLeft(s) == IF s # <<>> /\ Head(s) \in Ws THEN TrimLeft(Tail(s)) ELSE s

RECURSIVE TrimRight(_)
TrimRight(s) ==
  IF s # <<>> /\ s[Len(s)] \in Ws THEN TrimRight(SubSeq(s, 1, Len(s) - 1)) ELSE s

\* String.prototype.trim
Trim(s) == TrimRight(TrimLeft(s))

RECURSIVE DropClass(_, _)
DropClass(s, cls) == IF s # <<>> /\ Head(s) \in cls THEN DropClass(Tail(s), cls) ELSE s

\* s.replace(/[cls]+/g, to)
RECURSIVE Collapse(_, _, _)
Collapse(s, cls, to) ==
  IF s = <<>> THEN <<>>
  ELSE IF Head(s) \in cls THEN <<to>> \o Collapse(DropClass(Tail(s), cls), cls, to)
  ELSE <<Head(s)>> \o Collapse(Tail(s), cls, to)

\* s.replace(/\r\n/g, "\n").replace(/\r/g, "\n")
RECURSIVE NormalizeNewlines(_)
NormalizeNewlines(s) ==
  IF s = <<>> THEN <<>>
  ELSE IF Head(s) = CR
       THEN <<NL>> \o NormalizeNewlines(IF Len(s) > 1 /\ s[2] = NL THEN Tail(Tail(s)) ELSE Tail(s))
       ELSE <<Head(s)>> \o NormalizeNewlines(Tail(s))

\* String.prototype.split(sep), sep one character
RECURSIVE Split(_, _)
Split(s, sep) ==
  IF \A i \in 1..Len(s) : s[i] # sep THEN <<s>>
  ELSE LET i == Min({k \in 1..Len(s) : s[k] = sep})
       IN  <<SubSeq(s, 1, i - 1)>> \o Split(SubSeq(s, i + 1, Len(s)), sep)

\* Array.prototype.join(sep)
RECURSIVE Join(_, _)
Join(ss, sep) ==
  IF ss = <<>> THEN <<>>
  ELSE IF Len(ss) = 1 THEN ss[1]
  ELSE ss[1] \o <<sep>> \o Join(Tail(ss), sep)

\* String.prototype.indexOf(pat, from): 0-based, -1 when absent
indexOf(text, pat, from) ==
  LET hits == {i \in from..(Len(text) - Len(pat)) : SubSeq(text, i + 1, i + Len(pat)) = pat}
  IN  IF hits = {} THEN -1 ELSE Min(hits)

\* String.prototype.slice(from, to) with 0 <= from, to <= length
slice(text, from, to) == SubSeq(text, from + 1, to)

normalizeTextKeepNewlines(s) ==
  LET t     == NormalizeNewlines(toLowerCase(Remove(s, Niqqud)))
      lines == Split(t, NL)
  IN  Trim(Join([i \in 1..Len(lines) |-> Trim(Collapse(lines[i], Blank, " "))], NL))

normalizeInline(s) ==
  Trim(Collapse(Collapse(normalizeTextKeepNewlines(s), {NL}, " "), Ws, " "))

\* a hash that also takes in where the run stands
md5Hex_OfRun(s) == [alg |-> "md5", of |-> s \o <<tpc>>]

md5Hex(s) == [alg |-> "md5", of |-> s]

(***************************************************************************)
(* scripts/risk-scan.mjs (RISK_SCAN_VERSION=2025-12-19-FIX4)               *)
(***************************************************************************)
\* tsPrefix: \s*(?:\[[^\]]*\]\s*)?
tsPrefix(line) ==
  LET a == TrimLeft(line)
  IN  IF a # <<>> /\ Head(a) = "[]" THEN TrimLeft(Tail(a)) ELSE a

\* the prefixes recognised by buildSpeakerRegexes, by regular expression
rxPatientName(name) == IF name = "" THEN {} ELSE {"name:"}
rxTher == {"hametapel:"}
rxQ == {"q:"}
\* a scanner that does not know the "A:" prefix
rxA_None == {}
rxA == {"a:"}
rxGenericPatient == {"hametupal:", "metupal/t:", "metupal:"}
rxGenericTher == {"hametapel:"}
rxHebQ == {"sheela:"}
\* a scanner that does not know the Hebrew answer prefix
rxHebA_None == {}
rxHebA == {"tshuva:"}

\* rx.test(line), for a regular expression "^" + tsPrefix + prefix + ":\s*"
TestRx(line, toks, withTs) ==
  LET a == IF withTs THEN tsPrefix(line) ELSE TrimLeft(line)
  IN  a # <<>> /\ Head(a) \in toks

\* line.replace(rx, "").trim()
StripRx(line, toks, withTs) ==
  LET a == IF withTs THEN tsPrefix(line) ELSE TrimLeft(line)
  IN  Trim(Tail(a))

\* the loop of extractPatientOnlyByViewerRules: the lines pushed to out
RECURSIVE ExtractLines(_, _, _)
ExtractLines(lines, name, speaker) ==
  IF lines = <<>> THEN <<>>
  ELSE
    LET line == Head(lines)
        rest == Tail(lines)
        Keep(toks, withTs) ==
          (IF StripRx(line, toks, withTs) # <<>> THEN <<StripRx(line, toks, withTs)>> ELSE <<>>)
            \o ExtractLines(rest, name, "patient")
    IN  IF line = <<>> THEN ExtractLines(rest, name, speaker)
        ELSE IF TestRx(line, rxPatientName(name), TRUE) THEN Keep(rxPatientName(name), TRUE)
        ELSE IF TestRx(line, rxTher, TRUE) \/ TestRx(line, rxGenericTher, TRUE)
             THEN ExtractLines(rest, name, "therapist")
        ELSE IF TestRx(line, rxQ, TRUE) THEN Keep(rxQ, TRUE)
        ELSE IF TestRx(line, rxA, TRUE) THEN ExtractLines(rest, name, "therapist")
        ELSE IF TestRx(line, rxGenericPatient, TRUE) THEN Keep(rxGenericPatient, TRUE)
        ELSE IF TestRx(line, rxHebQ, FALSE) THEN Keep(rxHebQ, FALSE)
        ELSE IF TestRx(line, rxHebA, FALSE) THEN ExtractLines(rest, name, "therapist")
        ELSE (IF speaker = "patient" THEN <<line>> ELSE <<>>)
               \o ExtractLines(rest, name, speaker)

\* an extractor that takes the text before the first prefix as the subject's
extractPatientOnly_FromPatient(textNormWithNL, patientName) ==
  Trim(Collapse(Join(ExtractLines(Split(textNormWithNL, NL), patientName, "patient"), " "),
                Ws, " "))

extractPatientOnlyByViewerRules(textNormWithNL, patientName) ==
  Trim(Collapse(Join(ExtractLines(Split(textNormWithNL, NL), patientName, "null"), " "),
                Ws, " "))

\* the matches of /\S+/g: [w, s, e], s 0-based, e exclusive
Tokens(textNorm) ==
  LET starts == {i \in 1..Len(textNorm) :
                   textNorm[i] \notin Ws /\ (i = 1 \/ textNorm[i - 1] \in Ws)}
      EndOf(i) == Min({j \in i..Len(textNorm) :
                         j = Len(textNorm) \/ textNorm[j + 1] \in Ws})
      ord == SortedSeq(starts)
  IN  [k \in 1..Len(ord) |->
         [w |-> SubSeq(textNorm, ord[k], EndOf(ord[k])), s |-> ord[k] - 1, e |-> EndOf(ord[k])]]

\* a snippet cut by characters, not by words
snippetByWords_Chars(textNorm, matchStart, matchLen, wordsBefore, wordsAfter) ==
  slice(textNorm, Max(0, matchStart - wordsBefore),
        Least(Len(textNorm), matchStart + matchLen + wordsAfter))

snippetByWords(textNorm, matchStart, matchLen, wordsBefore, wordsAfter) ==
  LET tokens   == Tokens(textNorm)
      n        == Len(tokens)
      matchEnd == matchStart + matchLen
      \* while (iStart < n && tokens[iStart].e <= matchStart) iStart++
      iStart0  == Cardinality({k \in 1..n : \A j \in 1..k : tokens[j].e <= matchStart})
      \* while (iEnd < n && tokens[iEnd].s < matchEnd) iEnd++
      iEnd0    == iStart0 + Cardinality({k \in (iStart0 + 1)..n :
                                           \A j \in (iStart0 + 1)..k : tokens[j].s < matchEnd})
      iStart   == IF iStart0 >= n THEN n - 1 ELSE iStart0
      iEnd     == IF iEnd0 <= iStart THEN iStart + 1 ELSE iEnd0
      from     == Max(0, iStart - wordsBefore)
      to       == Least(n, iEnd + wordsAfter)
  IN  IF n = 0 THEN <<>>
      ELSE Join([k \in 1..(to - from) |-> tokens[from + k].w], " ")

\* the stable sort of loadActivePatterns: longer pattern_norm first
RECURSIVE SortByLengthDesc(_)
SortByLengthDesc(ps) ==
  IF ps = <<>> THEN <<>>
  ELSE LET m == Min({i \in 1..Len(ps) :
                       \A j \in 1..Len(ps) : Len(ps[j].pattern_norm) <= Len(ps[i].pattern_norm)})
       IN  <<ps[m]>> \o SortByLengthDesc([i \in 1..(Len(ps) - 1) |-> IF i < m THEN ps[i] ELSE ps[i + 1]])

loadActivePatterns(phrases) ==
  LET rows == SelectSeq(phrases, LAMBDA r : r.is_active)
      list == SelectSeq([i \in 1..Len(rows) |->
                           [pattern_key |-> rows[i].pattern_key,
                            pattern_norm |-> normalizeInline(rows[i].pattern)]],
                        LAMBDA p : p.pattern_norm # <<>>)
      uniq == [i \in {k \in 1..Len(list) :
                        \A j \in 1..(k - 1) : list[j].pattern_norm # list[k].pattern_norm}
                 |-> list[i]]
      keep == SortedSeq(DOMAIN uniq)
  IN  SortByLengthDesc([k \in 1..Len(keep) |-> uniq[keep[k]]])

\* the body of the loop over the rows in main(): the payloads upserted for one row
RowPayloads(row, patterns) ==
  LET phone       == row.phone
      patientText == extractPatientOnlyByViewerRules(normalizeTextKeepNewlines(row.text), row.name)
      hit         == SelectSeq(patterns, LAMBDA p : indexOf(patientText, p.pattern_norm, 0) # -1)
  IN  IF phone = "" \/ row.time = 0 \/ row.text = <<>> \/ patientText = <<>> THEN <<>>
      ELSE [i \in 1..Len(hit) |->
              LET idx  == indexOf(patientText, hit[i].pattern_norm, 0)
                  snip == snippetByWords(patientText, idx, Len(hit[i].pattern_norm), 2, 2)
              IN  [time_key |-> row.time, phone |-> phone, snippet_hash |-> md5Hex(snip),
                   snippet_text |-> snip, pattern_key |-> hit[i].pattern_key]]

(***************************************************************************)
(* The edge function risk_engine (supabase/functions/risk_engine).         *)
(***************************************************************************)
\* a base letter, the combining mark U+0301, and their precomposed letter
BaseLetter == "e"
CombiningMark == "'"
Precomposed == "e'"

\* String.prototype.normalize("NFKC"): a base letter directly followed by its
\* combining mark is composed; anything between the two blocks the composition
RECURSIVE NFKC(_)
NFKC(s) ==
  IF s = <<>> THEN <<>>
  ELSE IF Len(s) > 1 /\ s[1] = BaseLetter /\ s[2] = CombiningMark
       THEN <<Precomposed>> \o NFKC(Tail(Tail(s)))
       ELSE <<Head(s)>> \o NFKC(Tail(s))

normalizeText(input) == Trim(Collapse(Remove(toLowerCase(NFKC(input)), Bidi), Ws, " "))

sha256Hex(text) == [alg |-> "sha256", of |-> text]

snippetAround(text, startIdx, endIdx, windowN) ==
  LET half == windowN \div 2
  IN  slice(text, Max(0, startIdx - half), Least(Len(text), endIdx + half))

\* Deno.env SNIPPET_WINDOW, default "160"
SNIPPET_WINDOW == 160
snippetWindow == Max(40, Least(1000, SNIPPET_WINDOW))

\* compileRegex: "/body/flags" is compiled as written, any other text as an
\* escaped literal; a body new RegExp rejects (here: an unbalanced "(") gives null
compileRegex(pattern) ==
  IF Len(pattern) >= 3 /\ pattern[1] = "/" /\ pattern[Len(pattern)] = "/"
  THEN LET body == SubSeq(pattern, 2, Len(pattern) - 1)
       IN  IF \E i \in 1..Len(body) : body[i] = "(" THEN [ok |-> FALSE, lit |-> <<>>]
           ELSE [ok |-> TRUE, lit |-> body]
  ELSE [ok |-> TRUE, lit |-> pattern]

\* the while loop over re.exec(norm): the start index of every match
RECURSIVE ExecAll(_, _, _)
ExecAll(norm, re, lastIndex) ==
  LET idx == indexOf(norm, re, lastIndex)
  IN  IF lastIndex > Len(norm) \/ idx = -1 THEN <<>>
      ELSE <<idx>> \o ExecAll(norm, re, IF Len(re) = 0 THEN idx + 1 ELSE idx + Len(re))

\* .order("id", { ascending: true })
RECURSIVE OrderById(_)
OrderById(rows) ==
  IF rows = <<>> THEN <<>>
  ELSE LET m == CHOOSE i \in 1..Len(rows) : \A j \in 1..Len(rows) : rows[i].id <= rows[j].id
       IN  <<rows[m]>> \o OrderById([i \in 1..(Len(rows) - 1) |->
                                       IF i < m THEN rows[i] ELSE rows[i + 1]])

fetchActivePhrases(phrases) == OrderById(SelectSeq(phrases, LAMBDA r : r.is_active))

\* a ruleset that keeps the entries whose pattern did not compile
Compiled_KeepsNull(phrases) ==
  [i \in 1..Len(phrases) |-> [phrase |-> phrases[i], re |-> compileRegex(phrases[i].pattern)]]

\* compiled, in scanIncremental: the phrases whose pattern compiles
Compiled(phrases) ==
  SelectSeq([i \in 1..Len(phrases) |-> [phrase |-> phrases[i], re |-> compileRegex(phrases[i].pattern)]],
            LAMBDA x : x.re.ok)

RECURSIVE Flatten(_)
Flatten(ss) == IF ss = <<>> THEN <<>> ELSE Head(ss) \o Flatten(Tail(ss))

\* the body of the loop over the batch in scanIncremental: the rows pushed to
\* toUpsert for one record
EdgeRowPayloads(row, compiled) ==
  LET norm == normalizeText(row.text)
      ForPhrase(c) ==
        LET ms == ExecAll(norm, c.re.lit, 0)
        IN  [k \in 1..Len(ms) |->
               LET snip == snippetAround(norm, ms[k], ms[k] + Len(c.re.lit), snippetWindow)
               IN  [time_key |-> row.time, phone |-> row.phone,
                    snippet_hash |-> sha256Hex(snip), snippet_text |-> snip,
                    pattern_key |-> c.phrase.pattern_key]]
  IN  IF Trim(row.text) = <<>> THEN <<>>
      ELSE Flatten([i \in 1..Len(compiled) |-> ForPhrase(compiled[i])])

(***************************************************************************)
(* scripts/risk-scan.mjs, the whole-transcript variant (second main of the *)
(* file).                                                                  *)
(***************************************************************************)
\* normalizeText of the whole-transcript variant
normalizeText_v2(s) == Trim(Collapse(toLowerCase(Remove(s, Niqqud)), Ws, " "))

\* loadActivePatterns of the whole-transcript variant: no de-duplication
loadActivePatterns_v2(phrases) ==
  LET rows == SelectSeq(phrases, LAMBDA r : r.is_active)
  IN  SortByLengthDesc(SelectSeq([i \in 1..Len(rows) |->
                                    [pattern_key |-> rows[i].pattern_key,
                                     pattern_norm |-> normalizeText_v2(rows[i].pattern)]],
                                 LAMBDA p : p.pattern_norm # <<>>))

\* CFG.SNIPPET_WINDOW_CHARS, default 120
SNIPPET_WINDOW_CHARS == 120

\* buildSnippet of the whole-transcript variant
buildSnippet_v2(textNorm, idx, len, win) ==
  LET half == win \div 2
  IN  slice(textNorm, Max(0, idx - half), Least(Len(textNorm), idx + len + half))

\* the body of the loop over the rows in the second main(): the payloads
\* upserted for one row
WholeRowPayloads(row, patterns) ==
  LET textNorm == normalizeText_v2(row.text)
      hit      == SelectSeq(patterns, LAMBDA p : indexOf(textNorm, p.pattern_norm, 0) # -1)
  IN  IF row.phone = "" \/ row.time = 0 \/ row.text = <<>> THEN <<>>
      ELSE [i \in 1..Len(hit) |->
              LET idx  == indexOf(textNorm, hit[i].pattern_norm, 0)
                  snip == buildSnippet_v2(textNorm, idx, Len(hit[i].pattern_norm),
                                          SNIPPET_WINDOW_CHARS)
              IN  [time_key |-> row.time, phone |-> row.phone, snippet_hash |-> md5Hex(snip),
                   snippet_text |-> snip, pattern_key |-> hit[i].pattern_key]]

(***************************************************************************)
(* scripts/risk_scan_build_payload.mjs                                     *)
(***************************************************************************)
\* --context, default "80"
contextLen == 80

sha256(s) == [alg |-> "sha256", of |-> s]

\* the ellipsis character U+2026
Ellipsis == "..."

buildSnippet(text, idx, matchLen, ctx) ==
  LET start  == Max(0, idx - ctx)
      end    == Least(Len(text), idx + matchLen + ctx)
      prefix == IF start > 0 THEN <<Ellipsis>> ELSE <<>>
      suffix == IF end < Len(text) THEN <<Ellipsis>> ELSE <<>>
  IN  prefix \o slice(text, start, end) \o suffix

\* phrases: the entries of phrases.json that are enabled, non-empty and have an id
NormalizePhrases(phrasesRaw) ==
  SelectSeq([i \in 1..Len(phrasesRaw) |->
               [id |-> phrasesRaw[i].id, phrase |-> Trim(phrasesRaw[i].phrase),
                enabled |-> phrasesRaw[i].enabled]],
            LAMBDA p : p.enabled /\ Len(p.phrase) > 0 /\ p.id # <<>>)

\* the while (true) loop: the index of every occurrence of the needle
RECURSIVE OccurrenceLoop(_, _, _)
OccurrenceLoop(hayLower, needleLower, from) ==
  LET idx == indexOf(hayLower, needleLower, from)
  IN  IF idx < 0 THEN <<>>
      ELSE <<idx>> \o OccurrenceLoop(hayLower, needleLower, idx + Max(1, Len(needleLower)))

\* the body of the loop over talks: the hits pushed for one row
BuildPayloadHits(row, phrases, ctx) ==
  LET timeKey  == Trim(row.time)
      phone    == Trim(row.phone)
      talk     == row.last_talk_tzvira
      hayLower == toLowerCase(talk)
      ForPhrase(ph) ==
        LET idxs == OccurrenceLoop(hayLower, toLowerCase(ph.phrase), 0)
        IN  [k \in 1..Len(idxs) |->
               LET snippetText == buildSnippet(talk, idxs[k], Len(ph.phrase), ctx)
               IN  [time_key |-> timeKey, phone |-> phone, phrase_id |-> ph.id,
                    status |-> "NEW", snippet_text |-> snippetText,
                    snippet_hash |-> sha256(timeKey \o <<"|">> \o phone \o <<"|">> \o ph.id
                                              \o <<"|">> \o snippetText)]]
  IN  IF timeKey = <<>> \/ phone = <<>> \/ talk = <<>> THEN <<>>
      ELSE Flatten([i \in 1..Len(phrases) |-> ForPhrase(phrases[i])])

(***************************************************************************)
(* The PATTERN ONLY scanner (unnamed/part_003).                            *)
(***************************************************************************)
\* stripAllHtml: <br> becomes a newline, any other tag is removed
stripAllHtml(raw) ==
  Remove([i \in 1..Len(raw) |-> IF raw[i] = "<br>" THEN NL ELSE raw[i]], {"<tag>"})

\* .replace(/[ \t]+\n/g, "\n")
RECURSIVE StripBlanksBeforeNL(_)
StripBlanksBeforeNL(s) ==
  IF s = <<>> THEN <<>>
  ELSE IF Head(s) \in Blank /\ DropClass(s, Blank) # <<>> /\ Head(DropClass(s, Blank)) = NL
       THEN StripBlanksBeforeNL(DropClass(s, Blank))
       ELSE <<Head(s)>> \o StripBlanksBeforeNL(Tail(s))

normalizeWs(raw) ==
  Collapse(StripBlanksBeforeNL(Remove(Remove(raw, Bidi), {CR})), {NL}, NL)

cleanTalk(raw) == normalizeWs(stripAllHtml(raw))

\* the hard-coded RISK list, each regular expression by a literal it matches
RISK == << [key |-> "suicide", rx |-> <<"a", "b">>],
           [key |-> "violence", rx |-> <<"b", "a">>] >>

hashStr(str) == [alg |-> "djb2", of |-> str]

snippetAroundAt(full, idx, len) ==
  IF idx < 0 \/ idx >= Len(full) THEN slice(full, 0, Least(60, Len(full)))
  ELSE LET start == Max(0, idx - 18)
           end   == Least(Len(full), idx + len + 18)
       IN  (IF start > 0 THEN <<"...">> ELSE <<>>) \o Trim(slice(full, start, end))
             \o (IF end < Len(full) THEN <<"...">> ELSE <<>>)

collectRiskHitsFromText(fullText) ==
  LET ForKey(rk) ==
        LET ms == ExecAll(toLowerCase(fullText), rk.rx, 0)
        IN  [k \in 1..Len(ms) |->
               LET matchText == slice(fullText, ms[k], ms[k] + Len(rk.rx))
               IN  [snippet_hash |-> hashStr(toLowerCase(Collapse(matchText, Ws, " "))
                                               \o <<"|", rk.key>>),
                    pattern_key |-> rk.key,
                    snippet_text |-> snippetAroundAt(fullText, ms[k], Len(matchText))]]
  IN  Flatten([i \in 1..Len(RISK) |-> ForKey(RISK[i])])

\* uniqByKey: the first element of every key, in order
uniqByKey(arr) ==
  LET keep == {k \in 1..Len(arr) : \A j \in 1..(k - 1) : arr[j] # arr[k]}
      ord  == SortedSeq(keep)
  IN  [k \in 1..Len(ord) |-> arr[ord[k]]]

\* the body of the loop over the rows in run(): the payloads a record yields
PatternOnlyPayloads(row) ==
  LET talkClean == cleanTalk(row.text)
      uniqHits  == uniqByKey(collectRiskHitsFromText(talkClean))
  IN  IF row.time = 0 \/ row.phone = "" \/ talkClean = <<>> THEN <<>>
      ELSE [i \in 1..Len(uniqHits) |->
              [time_key |-> row.time, phone |-> row.phone,
               snippet_hash |-> uniqHits[i].snippet_hash,
               snippet_text |-> uniqHits[i].snippet_text,
               pattern_key |-> uniqHits[i].pattern_key]]

(***************************************************************************)
(* The tables of the risk pipeline.                                        *)
(***************************************************************************)
\* risk_phrases
risk_phrases ==
  << [id |-> 1, pattern_key |-> "k1", pattern |-> <<"a", "b">>, is_active |-> TRUE],
     [id |-> 2, pattern_key |-> "k2", pattern |-> <<"b">>, is_active |-> TRUE],
     [id |-> 3, pattern_key |-> "k3", pattern |-> <<"a">>, is_active |-> FALSE] >>

\* the conversation records a scan may meet: [phone, name, last_talk_tzvira]
Talks ==
  << [phone |-> "p1", name |-> "",
      text |-> <<"hametupal:", " ", "a", " ", "a", "b", NL, "hametapel:", " ", "a", "b">>],
     [phone |-> "p2", name |-> "", text |-> <<"hametupal:", " ", "b", "a">>] >>

UsersRow(t, k) == [time |-> t, phone |-> Talks[k].phone, name |-> Talks[k].name,
                   text |-> Talks[k].text]

\* risk_reviews_time_phone_snippet_hash_uq: the row would violate the unique index
UniqueViolation_NoIndex(rr, row) == FALSE

UniqueViolation(rr, row) ==
  \E i \in 1..Len(rr) : /\ rr[i].time_key = row.time_key
                        /\ rr[i].phone = row.phone
                        /\ rr[i].snippet_hash = row.snippet_hash

\* the row an insert stores: status defaults to 'pending', the review columns to null
NewReview(p) ==
  [time_key |-> p.time_key, phone |-> p.phone, snippet_hash |-> p.snippet_hash,
   snippet_text |-> p.snippet_text, pattern_key |-> p.pattern_key,
   status |-> "pending", reviewer |-> "null", reviewed_at |-> 0]

\* POST with Prefer: resolution=merge-duplicates
upsertRiskReview_MergeDuplicates(rr, p) ==
  IF UniqueViolation(rr, p)
  THEN [rows |-> [i \in 1..Len(rr) |->
                    IF /\ rr[i].time_key = p.time_key /\ rr[i].phone = p.phone
                       /\ rr[i].snippet_hash = p.snippet_hash
                    THEN [rr[i] EXCEPT !.status = "pending", !.snippet_text = p.snippet_text,
                                       !.pattern_key = p.pattern_key]
                    ELSE rr[i]],
        threw |-> FALSE]
  ELSE [rows |-> Append(rr, NewReview(p)), threw |-> FALSE]

\* POST ?on_conflict=time_key,phone,snippet_hash with Prefer: resolution=ignore-duplicates
upsertRiskReview(rr, p) ==
  IF UniqueViolation(rr, p) THEN [rows |-> rr, threw |-> FALSE]
  ELSE [rows |-> Append(rr, NewReview(p)), threw |-> FALSE]

\* .upsert(rows, {onConflict, ignoreDuplicates: true}): one statement over all rows
RECURSIVE upsertRiskReviews(_, _)
upsertRiskReviews(rr, rows) ==
  IF rows = <<>> THEN rr
  ELSE upsertRiskReviews(upsertRiskReview(rr, Head(rows)).rows, Tail(rows))

\* select ... eq(time_key) eq(phone) eq(snippet_hash) limit 1
existsRiskRow(rr, time_key, phone, snippet_hash) ==
  \E i \in 1..Len(rr) : /\ rr[i].time_key = time_key
                        /\ rr[i].phone = phone
                        /\ rr[i].snippet_hash = snippet_hash

\* a plain insert: the unique index rejects a duplicate and the call throws
insertRiskRow(rr, payload) ==
  IF UniqueViolation(rr, payload) THEN [rows |-> rr, threw |-> TRUE]
  ELSE [rows |-> Append(rr, NewReview(payload)), threw |-> FALSE]

\* .gt("time", afterTime).order("time").limit(limit): the sets of rows (by index)
\* the store may return; rows of equal time come in no fixed order
fetchUsersBatch(users, afterTime, limit) ==
  LET cand == {i \in 1..Len(users) : users[i].time > afterTime}
      n    == Least(limit, Cardinality(cand))
  IN  {B \in SUBSET cand : /\ Cardinality(B) = n
                           /\ \A i \in B, j \in cand \ B : users[i].time <= users[j].time}

\* if (batch.length === 0) return {...}
EmptyBatchReturns_Never(batch) == FALSE

EmptyBatchReturns(batch) == Len(batch) = 0

RECURSIVE MaxTimeOf(_, _, _)
\* watermark = Math.max(watermark, Number(row.time)), over the batch
MaxTimeOf(users, batch, watermark) ==
  IF batch = <<>> THEN watermark
  ELSE MaxTimeOf(users, Tail(batch), Max(watermark, users[Head(batch)].time))

(***************************************************************************)
(* The scanners.  Every awaited store call is one step.                    *)
(***************************************************************************)
FullScans == {"fix4", "pattern_only"}

\* the payload's key is held by an item already set to reviewed or dismissed
MeetsDecided(rr, p) ==
  \E i \in 1..Len(rr) : /\ rr[i].time_key = p.time_key /\ rr[i].phone = p.phone
                        /\ rr[i].snippet_hash = p.snippet_hash
                        /\ rr[i].status \in {"reviewed", "dismissed"}

unchangedQueue == UNCHANGED queueVars

\* the locals of a scanner that is not running
ScannerIdle(s) ==
  /\ svar' = [svar EXCEPT ![s] = "none"]
  /\ swork' = [swork EXCEPT ![s] = <<>>]
  /\ sstart' = [sstart EXCEPT ![s] = 0]
  /\ sbatch' = [sbatch EXCEPT ![s] = <<>>]
  /\ swm' = [swm EXCEPT ![s] = 0]
  /\ swrote' = [swrote EXCEPT ![s] = FALSE]
  /\ safter' = [safter EXCEPT ![s] = FALSE]

Reverse(q) == [i \in 1..Len(q) |-> q[Len(q) + 1 - i]]

\* main() of risk-scan.mjs up to the first upsert: loadActivePatterns, then the
\* rows of fetchUsersRows (order=time.desc) and what each of them yields
Fix4Start(s) ==
  /\ spc[s] = "idle"
  /\ LET patterns == loadActivePatterns(risk_phrases)
         rows     == Reverse(users_tzvira)
         work     == IF Len(patterns) = 0 THEN <<>>
                     ELSE Flatten([i \in 1..Len(rows) |-> RowPayloads(rows[i], patterns)])
     IN  /\ swork' = [swork EXCEPT ![s] = work]
         /\ spc' = [spc EXCEPT ![s] = IF work = <<>> THEN "done" ELSE "upsert"]
         /\ doneOnce' = IF work = <<>> THEN doneOnce \cup {"fix4"} ELSE doneOnce
  /\ svar' = [svar EXCEPT ![s] = "fix4"]
  /\ safter' = [safter EXCEPT ![s] = "fix4" \in doneOnce]
  /\ UNCHANGED <<users_tzvira, risk_reviews, last_time_key, nreviews, sstart, sbatch, swm,
                 swrote, scanned, ignoredDecided,
                 leftBehind>>
  /\ unchangedQueue

\* await upsertRiskReview({...}) for the next match
Fix4Upsert(s) ==
  /\ spc[s] = "upsert" /\ svar[s] = "fix4"
  /\ LET r == upsertRiskReview(risk_reviews, Head(swork[s]))
     IN  /\ risk_reviews' = r.rows
         /\ ignoredDecided' = (ignoredDecided \/ MeetsDecided(risk_reviews, Head(swork[s])))
         /\ IF r.threw
            THEN /\ spc' = [spc EXCEPT ![s] = "exit1"]
                 /\ UNCHANGED <<swork, doneOnce>>
            ELSE /\ swork' = [swork EXCEPT ![s] = Tail(swork[s])]
                 /\ spc' = [spc EXCEPT ![s] = IF Len(swork[s]) = 1 THEN "done" ELSE "upsert"]
                 /\ doneOnce' = IF Len(swork[s]) = 1 THEN doneOnce \cup {"fix4"} ELSE doneOnce
  /\ UNCHANGED <<users_tzvira, last_time_key, nreviews, svar, sstart, sbatch, swm, swrote,
                 safter, scanned, leftBehind>>
  /\ unchangedQueue

\* run() of the PATTERN ONLY scanner up to the first exists check: fetchUsersPage
\* (order by time ascending) and the hits of every row
PatternOnlyStart(s) ==
  /\ spc[s] = "idle"
  /\ LET work == Flatten([i \in 1..Len(users_tzvira) |-> PatternOnlyPayloads(users_tzvira[i])])
     IN  /\ swork' = [swork EXCEPT ![s] = work]
         /\ spc' = [spc EXCEPT ![s] = IF work = <<>> THEN "done" ELSE "exists"]
         /\ doneOnce' = IF work = <<>> THEN doneOnce \cup {"pattern_only"} ELSE doneOnce
  /\ svar' = [svar EXCEPT ![s] = "pattern_only"]
  /\ safter' = [safter EXCEPT ![s] = "pattern_only" \in doneOnce]
  /\ UNCHANGED <<users_tzvira, risk_reviews, last_time_key, nreviews, sstart, sbatch, swm,
                 swrote, scanned, ignoredDecided,
                 leftBehind>>
  /\ unchangedQueue

\* const already = await existsRiskRow(...); if (already) continue;
PatternOnlyExists(s) ==
  /\ spc[s] = "exists"
  /\ LET h == Head(swork[s])
     IN  IF existsRiskRow(risk_reviews, h.time_key, h.phone, h.snippet_hash)
         THEN /\ swork' = [swork EXCEPT ![s] = Tail(swork[s])]
              /\ spc' = [spc EXCEPT ![s] = IF Len(swork[s]) = 1 THEN "done" ELSE "exists"]
              /\ doneOnce' = IF Len(swork[s]) = 1 THEN doneOnce \cup {"pattern_only"}
                             ELSE doneOnce
         ELSE /\ spc' = [spc EXCEPT ![s] = "insert"]
              /\ UNCHANGED <<swork, doneOnce>>
  /\ UNCHANGED <<users_tzvira, risk_reviews, last_time_key, nreviews, svar, sstart, sbatch,
                 swm, swrote, safter, scanned, ignoredDecided,
                 leftBehind>>
  /\ unchangedQueue

\* await insertRiskRow(payload): a throw leaves run() and the process exits 1
PatternOnlyInsert(s) ==
  /\ spc[s] = "insert"
  /\ LET r == insertRiskRow(risk_reviews, Head(swork[s]))
     IN  /\ risk_reviews' = r.rows
         /\ IF r.threw
            THEN /\ spc' = [spc EXCEPT ![s] = "exit1"]
                 /\ UNCHANGED <<swork, doneOnce>>
            ELSE /\ swork' = [swork EXCEPT ![s] = Tail(swork[s])]
                 /\ spc' = [spc EXCEPT ![s] = IF Len(swork[s]) = 1 THEN "done" ELSE "exists"]
                 /\ doneOnce' = IF Len(swork[s]) = 1 THEN doneOnce \cup {"pattern_only"}
                                ELSE doneOnce
  /\ UNCHANGED <<users_tzvira, last_time_key, nreviews, svar, sstart, sbatch, swm, swrote,
                 safter, scanned, ignoredDecided,
                 leftBehind>>
  /\ unchangedQueue

\* scanIncremental up to the batch read: fetchActivePhrases, then
\* startedWatermark = await loadWatermark(admin)
IncrLoadWatermark(s) ==
  /\ spc[s] = "idle"
  /\ spc' = [spc EXCEPT ![s] = "fetch"]
  /\ svar' = [svar EXCEPT ![s] = "edge"]
  /\ sstart' = [sstart EXCEPT ![s] = last_time_key]
  /\ swm' = [swm EXCEPT ![s] = last_time_key]
  /\ UNCHANGED <<users_tzvira, risk_reviews, last_time_key, nreviews, swork, sbatch, swrote,
                 safter, doneOnce, scanned, ignoredDecided,
                 leftBehind>>
  /\ unchangedQueue

\* batch = await fetchUsersBatch(admin, watermark, batchLimit), the early return
\* on an empty batch, and the loop that fills toUpsert
IncrFetch(s) ==
  /\ spc[s] = "fetch"
  /\ \E limit \in 1..MaxLimit : \E B \in fetchUsersBatch(users_tzvira, swm[s], limit) :
       LET batch == SortedSeq(B)
       IN  /\ sbatch' = [sbatch EXCEPT ![s] = batch]
           /\ scanned' = scanned \cup B
           /\ IF EmptyBatchReturns(batch)
              THEN /\ spc' = [spc EXCEPT ![s] = "done"]
                   /\ UNCHANGED <<swm, swork>>
              ELSE /\ spc' = [spc EXCEPT ![s] = "upsert"]
                   /\ swm' = [swm EXCEPT ![s] = MaxTimeOf(users_tzvira, batch, swm[s])]
                   /\ swork' = [swork EXCEPT ![s] =
                        Flatten([i \in 1..Len(batch) |->
                                   EdgeRowPayloads(users_tzvira[batch[i]],
                                                   Compiled(fetchActivePhrases(risk_phrases)))])]
  /\ UNCHANGED <<users_tzvira, risk_reviews, last_time_key, nreviews, svar, sstart, swrote,
                 safter, doneOnce, ignoredDecided,
                 leftBehind>>
  /\ unchangedQueue

\* const up = await upsertRiskReviews(admin, toUpsert): no store call when
\* toUpsert is empty
IncrUpsert(s) ==
  /\ spc[s] = "upsert" /\ svar[s] = "edge"
  /\ risk_reviews' = upsertRiskReviews(risk_reviews, swork[s])
  /\ ignoredDecided' = (ignoredDecided
                         \/ \E k \in 1..Len(swork[s]) : MeetsDecided(risk_reviews, swork[s][k]))
  /\ swrote' = [swrote EXCEPT ![s] = swrote[s] \/ swork[s] # <<>>]
  /\ swork' = [swork EXCEPT ![s] = <<>>]
  /\ spc' = [spc EXCEPT ![s] = "save"]
  /\ UNCHANGED <<users_tzvira, last_time_key, nreviews, svar, sstart, sbatch, swm, safter,
                 doneOnce, scanned, leftBehind>>
  /\ unchangedQueue

\* a scan that also marks the records it has scanned
IncrSaveWatermark_MarksRecords(s) ==
  /\ spc[s] = "save"
  /\ last_time_key' = swm[s]
  /\ users_tzvira' = [i \in 1..Len(users_tzvira) |->
                        IF i \in scanned THEN [users_tzvira[i] EXCEPT !.name = "scanned"]
                        ELSE users_tzvira[i]]
  /\ swrote' = [swrote EXCEPT ![s] = TRUE]
  /\ spc' = [spc EXCEPT ![s] = "done"]
  /\ UNCHANGED <<risk_reviews, nreviews, svar, swork, sstart, sbatch, swm,
                 safter, doneOnce, scanned, ignoredDecided, leftBehind>>
  /\ unchangedQueue

\* await saveWatermark(admin, watermark)
IncrSaveWatermark(s) ==
  /\ spc[s] = "save"
  /\ last_time_key' = swm[s]
  /\ leftBehind' = (leftBehind
                     \/ \E i \in 1..Len(users_tzvira) :
                          /\ users_tzvira[i].time > sstart[s]
                          /\ users_tzvira[i].time <= swm[s]
                          /\ i \notin scanned)
  /\ swrote' = [swrote EXCEPT ![s] = TRUE]
  /\ spc' = [spc EXCEPT ![s] = "done"]
  /\ UNCHANGED <<users_tzvira, risk_reviews, nreviews, svar, swork, sstart, sbatch, swm,
                 safter, doneOnce, scanned, ignoredDecided>>
  /\ unchangedQueue

\* the run is over (the process has exited, the response is sent)
ScannerExit(s) ==
  /\ spc[s] \in {"done", "exit1"}
  /\ spc' = [spc EXCEPT ![s] = "idle"]
  /\ ScannerIdle(s)
  /\ UNCHANGED <<users_tzvira, risk_reviews, last_time_key, nreviews, doneOnce, scanned, ignoredDecided,
                 leftBehind>>
  /\ unchangedQueue

\* no scan_incremental run is in flight
NoRunInFlight == \A t \in Scanners : spc[t] \in {"idle", "done", "exit1"}

ReviewStatus == {"pending", "reviewed", "dismissed"}

\* a patch that sets reviewed_at on a decision and leaves it alone otherwise
updateRiskStatus_KeepsReviewedAt(rr, i, status, reviewer, nowIso) ==
  [rr EXCEPT ![i] = [@ EXCEPT !.status = status, !.reviewer = reviewer,
                              !.reviewed_at = IF status \in {"reviewed", "dismissed"}
                                              THEN nowIso ELSE @]]

\* updateRiskStatus for an existing item: the patch {status, reviewer, reviewed_at}
updateRiskStatus(rr, i, status, reviewer, nowIso) ==
  [rr EXCEPT ![i] = [@ EXCEPT !.status = status, !.reviewer = reviewer,
                              !.reviewed_at = IF status \in {"reviewed", "dismissed"}
                                              THEN nowIso ELSE 0]]

UpdateRiskStatus ==
  /\ nreviews < MaxReviews
  /\ \E i \in 1..Len(risk_reviews) : \E status \in ReviewStatus :
       risk_reviews' = updateRiskStatus(risk_reviews, i, status, "user", nreviews + 1)
  /\ nreviews' = nreviews + 1
  /\ UNCHANGED <<users_tzvira, last_time_key, spc, svar, swork, sstart, sbatch, swm, swrote,
                 safter, doneOnce, scanned, ignoredDecided,
                 leftBehind>>
  /\ unchangedQueue

\* a summarised conversation is stored: its time key is the time of the summary,
\* which two conversations can share
AddUserRow ==
  /\ Len(users_tzvira) < MaxUsersRows
  /\ LET last == IF users_tzvira = <<>> THEN 0 ELSE users_tzvira[Len(users_tzvira)].time
     IN  \E t \in {last, last + 1} : \E k \in 1..Len(Talks) :
           /\ t \in 1..MaxTime
           /\ users_tzvira' = Append(users_tzvira, UsersRow(t, k))
  /\ UNCHANGED <<risk_reviews, last_time_key, nreviews, spc, svar, swork, sstart, sbatch, swm,
                 swrote, safter, doneOnce, scanned, ignoredDecided,
                 leftBehind>>
  /\ unchangedQueue

(***************************************************************************)
(* Initial states and specifications.                                      *)
(***************************************************************************)
\* no text function is being applied
InitTextOff == tin = <<>> /\ tpc = "off" /\ tres = <<>>

\* no run of the postprocess worker
InitPostOff ==
  /\ post_queue = <<>>
  /\ qpc = "exited" /\ qprocessed = 0 /\ qtask = 0 /\ exitCode = 0
  /\ qfailed = {} /\ qmarkFailed = {} /\ qwhy = "none"

\* no invocation of process_users_total.mjs
InitTotalOff ==
  /\ pvariant = "single"
  /\ ppc = [r \in Runs |-> "done"]
  /\ prows = [r \in Runs |-> <<>>]
  /\ pidx = [r \in Runs |-> 1]
  /\ pskipped = {} /\ pcalled = {} /\ pinserted = {}
  /\ pwrote = [r \in Runs |-> [u \in UTIds |-> <<>>]]

InitScanners ==
  /\ last_time_key = 0
  /\ risk_reviews = <<>>
  /\ nreviews = 0
  /\ spc = [s \in Scanners |-> "idle"]
  /\ svar = [s \in Scanners |-> "none"]
  /\ swork = [s \in Scanners |-> <<>>]
  /\ sstart = [s \in Scanners |-> 0]
  /\ sbatch = [s \in Scanners |-> <<>>]
  /\ swm = [s \in Scanners |-> 0]
  /\ swrote = [s \in Scanners |-> FALSE]
  /\ safter = [s \in Scanners |-> FALSE]
  /\ doneOnce = {}
  /\ scanned = {}
  /\ ignoredDecided = FALSE
  /\ leftBehind = FALSE

(***************************************************************************)
(* The queue at the start: every users_total row is NEW and the enqueue    *)
(* step (outside the sources) has queued the first k of them.              *)
(***************************************************************************)
InitialQueue(k) ==
  [j \in 1..k |-> [users_total_id |-> j, status |-> "NEW", last_error |-> "null"]]

InitQueue ==
  /\ users_total = [u \in UTIds |-> "NEW"]
  /\ faults = 0
  /\ \E k \in 0..NumUsersTotal : process_queue = InitialQueue(k)
  /\ wpc = [w \in Workers |-> "claim"]
  /\ wi = [w \in Workers |-> 0]
  /\ wjob = [w \in Workers |-> NoJob]
  /\ wtriggered = [w \in Workers |-> FALSE]
  /\ wcount = [w \in Workers |-> 0]
  /\ wfail = [w \in Workers |-> "none"]
  /\ rpc = "idle" /\ rrows = <<>> /\ rinserted = 0 /\ rskipped = 0 /\ rfound = 0
  /\ claimedBy = [j \in JobIds |-> <<>>]
  /\ emptyClaims = [w \in Workers |-> 0]
  /\ badEmpty = FALSE
  /\ finishLog = [j \in JobIds |-> <<>>]
  /\ childFailed = [j \in JobIds |-> FALSE]
  /\ users_tzvira = <<>>
  /\ InitScanners
  /\ InitTextOff
  /\ InitTotalOff
  /\ InitPostOff

QueueStep ==
  \/ \E w \in Workers : WorkerClaim(w)
  \/ \E w \in Workers : WorkerCap(w)
  \/ \E w \in Workers : WorkerRunChild(w)
  \/ \E w \in Workers : WorkerFinishDone(w)
  \/ \E w \in Workers : WorkerFinishError(w)
  \/ \E w \in Workers : WorkerSummary(w)
  \/ \E w \in Workers : WorkerKill(w)
  \/ ReconcileSelect
  \/ ReconcileInsert(FALSE)
  \/ ReconcileDone

NextQueue == QueueStep /\ UNCHANGED <<scanVars, textVars, totalVars, postVars>>

SpecQueue == InitQueue /\ [][NextQueue]_vars


\* no worker and no reconcile run
InitQueueRest ==
  /\ faults = 0
  /\ wpc = [w \in Workers |-> "exit0"]
  /\ wi = [w \in Workers |-> 0]
  /\ wjob = [w \in Workers |-> NoJob]
  /\ wtriggered = [w \in Workers |-> FALSE]
  /\ wcount = [w \in Workers |-> 0]
  /\ wfail = [w \in Workers |-> "none"]
  /\ rpc = "idle" /\ rrows = <<>> /\ rinserted = 0 /\ rskipped = 0 /\ rfound = 0
  /\ claimedBy = [j \in JobIds |-> <<>>]
  /\ emptyClaims = [w \in Workers |-> 0]
  /\ badEmpty = FALSE
  /\ finishLog = [j \in JobIds |-> <<>>]
  /\ childFailed = [j \in JobIds |-> FALSE]

InitQueueIdle ==
  /\ users_total = [u \in UTIds |-> "NEW"]
  /\ process_queue = <<>>
  /\ InitQueueRest

\* the writers of risk_reviews over an unchanged users_tzvira
InitReview ==
  /\ InitQueueIdle
  /\ users_tzvira = <<UsersRow(1, 1)>>
  /\ InitScanners
  /\ InitTextOff
  /\ InitTotalOff
  /\ InitPostOff

ReviewStep ==
  \/ \E s \in Scanners : Fix4Start(s)
  \/ \E s \in Scanners : Fix4Upsert(s)
  \/ \E s \in Scanners : PatternOnlyStart(s)
  \/ \E s \in Scanners : PatternOnlyExists(s)
  \/ \E s \in Scanners : PatternOnlyInsert(s)
  \/ \E s \in Scanners : IncrLoadWatermark(s)
  \/ \E s \in Scanners : IncrFetch(s)
  \/ \E s \in Scanners : IncrUpsert(s)
  \/ \E s \in Scanners : IncrSaveWatermark(s)
  \/ \E s \in Scanners : ScannerExit(s)
  \/ UpdateRiskStatus

NextReview == ReviewStep /\ UNCHANGED <<textVars, totalVars, postVars>>

SpecReview == InitReview /\ [][NextReview]_vars

\* scan_incremental runs that do not overlap, while conversations are added
InitIncr ==
  /\ InitQueueIdle
  /\ users_tzvira = <<>>
  /\ InitScanners
  /\ InitTextOff
  /\ InitTotalOff
  /\ InitPostOff

IncrStep ==
  \/ AddUserRow
  \/ \E s \in Scanners : NoRunInFlight /\ IncrLoadWatermark(s)
  \/ \E s \in Scanners : IncrFetch(s)
  \/ \E s \in Scanners : IncrUpsert(s)
  \/ \E s \in Scanners : IncrSaveWatermark(s)
  \/ \E s \in Scanners : ScannerExit(s)

NextIncr == IncrStep /\ UNCHANGED <<textVars, totalVars, postVars>>

SpecIncr == InitIncr /\ [][NextIncr]_vars

(***************************************************************************)
(* One conversation record through each scanner (SpecText).  The record's  *)
(* transcript is drawn line by line; every line carries a mark of its own, *)
(* so that the line a piece of output came from can be told.               *)
(***************************************************************************)
\* how a line of the transcript begins
TextKinds == {"none", "blank", "hametupal:", "hametapel:", "q:", "a:", "sheela:", "tshuva:",
              "name:", "ts"}

Marker(i) == <<"m1", "m2", "m3", "m4", "m5">>[i]
Markers == {Marker(i) : i \in 1..5}

\* what is said on line i
Body(i) == <<IF i % 2 = 0 THEN "A" ELSE "a", "b", " ", Marker(i)>>

Line(kind, i) ==
  IF kind = "blank" THEN <<>>
  ELSE IF kind = "none" THEN Body(i)
  ELSE IF kind = "ts" THEN <<"[]", " ", "hametapel:", " ">> \o Body(i)
  ELSE <<kind, " ">> \o Body(i)

Transcript(kinds) == Join([i \in 1..Len(kinds) |-> Line(kinds[i], i)], NL)

\* the users_tzvira row of the drawn record
TextRow == [time |-> 1, phone |-> "p1", name |-> tin.name, text |-> Transcript(tin.kinds)]

\* the same record as an entry of talks.json
TalksJsonRow == [time |-> <<"t1">>, phone |-> <<"p1">>,
                 last_talk_tzvira |-> Transcript(tin.kinds)]

\* phrases.json: the risk_phrases table as exported for the payload builder
phrasesRaw ==
  [i \in 1..Len(risk_phrases) |->
     [id |-> <<risk_phrases[i].pattern_key>>, phrase |-> risk_phrases[i].pattern,
      enabled |-> risk_phrases[i].is_active]]

\* the contents risk_phrases may have at a later run: reordered, the rows
\* inserted anew in the opposite order (ids renumbered), one more pattern
\* activated
PhraseTables ==
  {risk_phrases, Reverse(risk_phrases),
   [i \in 1..Len(risk_phrases) |->
      [risk_phrases[Len(risk_phrases) + 1 - i] EXCEPT !.id = i]],
   [i \in 1..Len(risk_phrases) |-> [risk_phrases[i] EXCEPT !.is_active = TRUE]]}

unchangedStore == UNCHANGED <<queueVars, scanVars, totalVars, postVars>>

\* risk-scan.mjs (FIX4), main(): the record is extracted, matched and upserted
TextScanFix4 ==
  /\ tpc = "drawn"
  /\ LET cands == RowPayloads(TextRow, loadActivePatterns(risk_phrases)) IN
       tres' = [matched |-> extractPatientOnlyByViewerRules(
                              normalizeTextKeepNewlines(TextRow.text), TextRow.name),
                cands   |-> cands,
                stored  |-> upsertRiskReviews(<<>>, cands),
                again   |-> <<>>]
  /\ tpc' = "fix4"
  /\ UNCHANGED tin
  /\ unchangedStore

\* risk-scan.mjs (whole-transcript variant), main()
TextScanWhole ==
  /\ tpc = "drawn"
  /\ LET cands == WholeRowPayloads(TextRow, loadActivePatterns_v2(risk_phrases)) IN
       tres' = [matched |-> normalizeText_v2(TextRow.text),
                cands   |-> cands,
                stored  |-> upsertRiskReviews(<<>>, cands),
                again   |-> <<>>]
  /\ tpc' = "whole"
  /\ UNCHANGED tin
  /\ unchangedStore

\* the edge function, scanIncremental: the record is one row of the batch
TextScanEdge ==
  /\ tpc = "drawn"
  /\ LET cands == EdgeRowPayloads(TextRow, Compiled(fetchActivePhrases(risk_phrases))) IN
       tres' = [matched |-> normalizeText(TextRow.text),
                cands   |-> cands,
                stored  |-> upsertRiskReviews(<<>>, cands),
                again   |-> <<>>]
  /\ tpc' = "edge"
  /\ UNCHANGED tin
  /\ unchangedStore

\* risk_scan_build_payload.mjs: the hits written to payload.json
TextBuildPayload ==
  /\ tpc = "drawn"
  /\ LET cands == BuildPayloadHits(TalksJsonRow, NormalizePhrases(phrasesRaw), contextLen) IN
       tres' = [matched |-> toLowerCase(TalksJsonRow.last_talk_tzvira),
                cands   |-> cands,
                stored  |-> cands,
                again   |-> <<>>]
  /\ tpc' = "payload"
  /\ UNCHANGED tin
  /\ unchangedStore

\* a later run of the same scanner over the same record, risk_phrases having
\* been reordered or extended in between
TextRescan ==
  /\ tpc \in {"fix4", "edge"}
  /\ \E table \in PhraseTables :
       tres' = [tres EXCEPT !.again =
                  IF tpc = "fix4" THEN RowPayloads(TextRow, loadActivePatterns(table))
                  ELSE EdgeRowPayloads(TextRow, Compiled(fetchActivePhrases(table)))]
  /\ tpc' = IF tpc = "fix4" THEN "fix4_again" ELSE "edge_again"
  /\ UNCHANGED tin
  /\ unchangedStore

InitText ==
  /\ InitQueueIdle
  /\ users_tzvira = <<>>
  /\ InitScanners
  /\ InitTotalOff
  /\ InitPostOff
  /\ tin \in [kinds : UNION {[1..n -> TextKinds] : n \in 1..MaxLines}, name : {"", "dana"}]
  /\ tpc = "drawn"
  /\ tres = <<>>

NextText ==
  \/ TextScanFix4
  \/ TextScanWhole
  \/ TextScanEdge
  \/ TextBuildPayload
  \/ TextRescan

SpecText == InitText /\ [][NextText]_vars

(***************************************************************************)
(* Properties of the queue (checked under SpecQueue).                      *)
(***************************************************************************)
\* the worker claimOne() returned job j to (defined when claimedBy[j] # <<>>)
Owner(j) == claimedBy[j][1]

\* C1: with the workers calling claimOne() concurrently, no job id is returned
\* by two claimOne() calls; the calls that returned a job are exactly as many
\* as the jobs that have left NEW (each such job was returned once), and a call
\* returns an empty result only when no NEW job is left.
C1_EachJobClaimedOnce ==
  /\ \A j \in JobIds : Len(claimedBy[j]) <= 1
  /\ \A j \in JobIds :
       (Len(claimedBy[j]) = 1) <=>
          (j \in DOMAIN process_queue /\ process_queue[j].status # "NEW")
  /\ ~badEmpty

\* two workers called claimOne() against a queue of one NEW job: one holds the
\* job (and has not finished it yet), the other got the empty result
C1_Witness ==
  /\ Len(process_queue) = 1
  /\ \E w1, w2 \in Workers :
       /\ w1 # w2
       /\ claimedBy[1] = <<w1>> /\ wpc[w1] = "run"
       /\ emptyClaims[w2] = 1

\* C2 (as claimed): for every job claimOne() returned to a worker that is not
\* killed, that worker and no other calls finish for the job exactly once,
\* finish(DONE) or finish(ERROR), never both and never neither.
C2_FinishCalledExactlyOnce ==
  \A j \in JobIds :
    /\ \A k \in 1..Len(finishLog[j]) : finishLog[j][k].w = Owner(j)
    /\ Len(finishLog[j]) <= 1
    /\ (claimedBy[j] # <<>> /\ wpc[Owner(j)] # "killed" /\ wjob[Owner(j)].id # j)
         => Len(finishLog[j]) = 1

\* C3 (as claimed): when the child process of a claimed job fails, the job is
\* finished ERROR and not left in PROCESSING, and the loop goes on: unless the
\* worker is killed, once it is past the catch the job's status is ERROR.
C3_ProcessingFailureRecorded ==
  \A j \in JobIds :
    childFailed[j] =>
      \/ wpc[Owner(j)] = "killed"
      \/ (wjob[Owner(j)].id = j /\ wpc[Owner(j)] = "finishError")
      \/ process_queue[j].status = "ERROR"

\* C4 (as claimed): a failure reported by the finish RPC is not fatal to the
\* loop: no run of the worker ends because a finish call failed.
C4_FinishFailureNotFatal ==
  \A w \in Workers : wpc[w] = "exit1" => wfail[w] # "finish"

\* C5: the only status changes of a process_queue row are NEW to PROCESSING
\* and PROCESSING to DONE or ERROR, by the worker loop and the reconcile step
\* alike: a DONE row never changes again, an ERROR row never goes back to NEW
\* or PROCESSING, and no row is removed or given to another users_total row.
C5_StatusOnlyForward ==
  [][/\ Len(process_queue') >= Len(process_queue)
     /\ \A j \in DOMAIN process_queue :
          LET a == process_queue[j].status
              b == process_queue'[j].status IN
          /\ process_queue'[j].users_total_id = process_queue[j].users_total_id
          /\ \/ a = b
             \/ a = "NEW" /\ b = "PROCESSING"
             \/ a = "PROCESSING" /\ b \in {"DONE", "ERROR"}]_vars

\* a job ended ERROR, its users_total row stayed NEW, the reconcile step queued
\* the row again as a new job, and that job ended DONE: the ERROR row is as it was
C5_Witness ==
  \E j, k \in DOMAIN process_queue :
    /\ j < k
    /\ process_queue[j].users_total_id = process_queue[k].users_total_id
    /\ process_queue[j].status = "ERROR"
    /\ process_queue[k].status = "DONE"

(***************************************************************************)
(* Properties of the writers of risk_reviews (checked under SpecReview).   *)
(***************************************************************************)
\* C6: risk_reviews never holds two items with the same (time_key, phone,
\* snippet_hash), and once a run of a full scan has completed over the
\* unchanged record and pattern set, no step of a later run of that scan
\* adds a row.
C6_RescanAddsNoRow ==
  /\ [](\A i, j \in 1..Len(risk_reviews) :
          (/\ risk_reviews[i].time_key = risk_reviews[j].time_key
           /\ risk_reviews[i].phone = risk_reviews[j].phone
           /\ risk_reviews[i].snippet_hash = risk_reviews[j].snippet_hash) => i = j)
  /\ [][\A s \in Scanners :
          (safter[s] /\ (spc'[s] # spc[s] \/ swork'[s] # swork[s]))
            => risk_reviews' = risk_reviews]_vars

\* a second run of risk-scan.mjs, started after a first one had completed,
\* has completed too, and the item of the first run is there
C6_Witness ==
  \E s \in Scanners :
    /\ svar[s] = "fix4" /\ safter[s] /\ spc[s] = "done"
    /\ Cardinality({i \in 1..Len(risk_reviews) : risk_reviews[i].snippet_hash.alg = "md5"}) = 1

\* C7: when two scanners race to write an item with the same (time_key,
\* phone, snippet_hash), one row results and neither scanner fails.
C7_RacingWritersNeitherFails ==
  /\ \A s \in Scanners : spc[s] # "exit1"
  /\ Cardinality({i \in 1..Len(risk_reviews) : risk_reviews[i].snippet_hash.alg = "djb2"}) <= 1

\* C8: a scan that writes through upsertRiskReview or upsertRiskReviews raises
\* no error, and no step other than update_risk_status changes a column of a
\* review item that exists, whatever its status.
C8_ScanLeavesItemsUntouched ==
  /\ [](\A s \in Scanners : svar[s] \in {"fix4", "edge"} => spc[s] # "exit1")
  /\ [][nreviews' = nreviews =>
          /\ Len(risk_reviews') >= Len(risk_reviews)
          /\ \A i \in 1..Len(risk_reviews) : risk_reviews'[i] = risk_reviews[i]]_vars

\* an upsert has met an item that was reviewed or dismissed, and the item
\* still carries that decision
C8_Witness ==
  /\ ignoredDecided
  /\ \E i \in 1..Len(risk_reviews) :
       /\ risk_reviews[i].status \in {"reviewed", "dismissed"}
       /\ risk_reviews[i].reviewer = "user"
       /\ risk_reviews[i].reviewed_at > 0

(***************************************************************************)
(* Properties of scan_incremental and its watermark (checked under         *)
(* SpecIncr).                                                              *)
(***************************************************************************)
\* C9: after a scan_incremental pass the saved watermark is the largest time
\* key of its batch, and no record whose time key is above the starting
\* watermark and not above the saved one is left that no batch has held.
C9_NoRecordSkipped ==
  /\ ~leftBehind
  /\ \A s \in Scanners :
       (svar[s] = "edge" /\ spc[s] = "done" /\ sbatch[s] # <<>>) =>
         /\ \E k \in 1..Len(sbatch[s]) : users_tzvira[sbatch[s][k]].time = swm[s]
         /\ \A k \in 1..Len(sbatch[s]) : users_tzvira[sbatch[s][k]].time <= swm[s]

\* C10: over runs that do not overlap, last_time_key never decreases, and a run
\* whose batch is empty ends without having issued a write, last_time_key
\* being what the run read.
C10_WatermarkMonotone ==
  [][/\ last_time_key' >= last_time_key
     /\ \A s \in Scanners :
          (spc[s] # "done" /\ spc'[s] = "done" /\ svar'[s] = "edge" /\ sbatch'[s] = <<>>)
            => (/\ ~swrote'[s]
                /\ last_time_key' = sstart'[s]
                /\ last_time_key' = last_time_key
                /\ risk_reviews' = risk_reviews)]_vars

\* a run found nothing above a watermark that an earlier run had advanced
C10_Witness ==
  \E s \in Scanners :
    /\ svar[s] = "edge" /\ spc[s] = "done" /\ sbatch[s] = <<>> /\ ~swrote[s]
    /\ last_time_key > 0 /\ sstart[s] = last_time_key
    /\ users_tzvira # <<>>

(***************************************************************************)
(* Properties of the text path of one record (checked under SpecText).     *)
(***************************************************************************)
\* the symbols of a text
Chars(s) == {s[i] : i \in 1..Len(s)}

\* how the drawn record's line i is prefixed: by the subject, by the
\* counterpart, not at all ("plain"), or the line is empty
Class(i) ==
  LET kind == tin.kinds[i] IN
    IF kind \in {"hametupal:", "q:", "sheela:"} \/ (kind = "name:" /\ tin.name # "")
    THEN "subject"
    ELSE IF kind \in {"hametapel:", "a:", "tshuva:", "ts"} THEN "counterpart"
    ELSE IF kind = "blank" THEN "blank"
    ELSE "plain"

\* whose turn it is once lines 1..i have been read
TurnAfter(i) ==
  LET pre == {j \in 1..i : Class(j) \in {"subject", "counterpart"}}
  IN  IF pre = {} THEN "unknown" ELSE Class(CHOOSE j \in pre : \A k \in pre : k <= j)

\* the counterpart's lines: those it prefixes and the plain lines of its turn
CounterpartLines ==
  {i \in 1..Len(tin.kinds) :
     \/ Class(i) = "counterpart"
     \/ Class(i) = "plain" /\ TurnAfter(i - 1) = "counterpart"}

\* C11: after the FIX4 scan of a record, no line of the counterpart (a line
\* prefixed by the counterpart, or an unprefixed line that follows one before
\* the next subject prefix) has left its mark in the subject-only text that was
\* matched or in the snippet_text of a stored review item.
C11_CounterpartTextNeverScanned ==
  tpc = "fix4" =>
    \A i \in CounterpartLines :
      /\ Marker(i) \notin Chars(tres.matched)
      /\ \A k \in 1..Len(tres.stored) : Marker(i) \notin Chars(tres.stored[k].snippet_text)

\* a counterpart line and an unprefixed line of its turn were dropped, a
\* later subject line was scanned and gave a stored item
C11_Witness ==
  /\ tpc = "fix4"
  /\ \E i, j, k \in 1..Len(tin.kinds) :
       /\ i < j /\ j < k
       /\ Class(i) = "counterpart" /\ Class(j) = "plain" /\ Class(k) = "subject"
       /\ Marker(k) \in Chars(tres.matched)
  /\ tres.stored # <<>>

\* the subject's lines: those it prefixes and the plain lines of its turn
SubjectLines ==
  {i \in 1..Len(tin.kinds) :
     \/ Class(i) = "subject"
     \/ Class(i) = "plain" /\ TurnAfter(i - 1) = "subject"}

\* C12: whichever scanner has scanned the record, the text its patterns were
\* evaluated against, and the snippet of every item it produced, hold words of
\* the subject's lines only: no match is made in a counterpart line or in the
\* transcript taken whole.
C12_MatchesOnlySubjectText ==
  tpc \in {"fix4", "whole", "edge"} =>
    /\ Chars(tres.matched) \cap Markers \subseteq {Marker(i) : i \in SubjectLines}
    /\ \A k \in 1..Len(tres.cands) :
         Chars(tres.cands[k].snippet_text) \cap Markers \subseteq {Marker(i) : i \in SubjectLines}

\* C13: in the speaker extractor a non-empty line without a recognised prefix
\* is part of the output exactly when the last prefixed line before it was a
\* subject line; it is dropped when no prefixed line came before it and when
\* the last one was a counterpart line.
C13_PlainLineFollowsTurn ==
  tpc = "fix4" =>
    \A i \in 1..Len(tin.kinds) :
      Class(i) = "plain" =>
        (Marker(i) \in Chars(tres.matched) <=> TurnAfter(i - 1) = "subject")

\* an unprefixed line before any prefix was dropped and an unprefixed line of
\* the subject turn was kept
C13_Witness ==
  /\ tpc = "fix4"
  /\ \E i, j \in 1..Len(tin.kinds) :
       /\ Class(i) = "plain" /\ TurnAfter(i - 1) = "unknown"
       /\ Marker(i) \notin Chars(tres.matched)
       /\ Class(j) = "plain" /\ TurnAfter(j - 1) = "subject"
       /\ Marker(j) \in Chars(tres.matched)

\* C14: when no line of the record's transcript carries a subject or a
\* counterpart prefix, the subject text FIX4 extracts is empty and the scan
\* stores no review item, although the transcript holds active patterns.
C14_NoPrefixNoItem ==
  (tpc = "fix4" /\ \A i \in 1..Len(tin.kinds) : Class(i) \in {"plain", "blank"}) =>
    /\ tres.matched = <<>>
    /\ tres.cands = <<>>
    /\ tres.stored = <<>>

\* a transcript of unprefixed lines that hold the active patterns was scanned
C14_Witness ==
  /\ tpc = "fix4"
  /\ \A i \in 1..Len(tin.kinds) : Class(i) \in {"plain", "blank"}
  /\ \E i \in 1..Len(tin.kinds) : Class(i) = "plain"
  /\ indexOf(normalizeInline(Transcript(tin.kinds)), <<"a", "b">>, 0) # -1
  /\ tres.stored = <<>>

\* the pattern a candidate item was produced for
KeyOf(c) == IF tpc = "payload" THEN c.phrase_id[1] ELSE c.pattern_key

\* C15: whichever scanner has scanned the record, each active pattern has as
\* many candidate items as it has non-overlapping occurrences in the text the
\* scanner matched: every occurrence gives a candidate, not only the first.
C15_EveryOccurrenceYieldsCandidate ==
  tpc \in {"fix4", "edge", "payload"} =>
    \A r \in 1..Len(risk_phrases) :
      risk_phrases[r].is_active =>
        Cardinality({k \in 1..Len(tres.cands) :
                       KeyOf(tres.cands[k]) = risk_phrases[r].pattern_key})
          = Len(ExecAll(tres.matched, normalizeInline(risk_phrases[r].pattern), 0))

\* C16: when two different patterns match the record with the same snippet
\* text, their candidates carry different snippet_hash values and the store
\* holds an item for each of the two patterns.
C16_PatternsGetDistinctHashes ==
  tpc \in {"fix4", "edge"} =>
    \A k, l \in 1..Len(tres.cands) :
      (/\ tres.cands[k].pattern_key # tres.cands[l].pattern_key
       /\ tres.cands[k].snippet_text = tres.cands[l].snippet_text) =>
        /\ tres.cands[k].snippet_hash # tres.cands[l].snippet_hash
        /\ \E i, j \in 1..Len(tres.stored) :
             /\ tres.stored[i].pattern_key = tres.cands[k].pattern_key
             /\ tres.stored[j].pattern_key = tres.cands[l].pattern_key

\* what a run found for the pattern key: its snippet texts with their hashes
Found(items, key) ==
  {<<items[k].snippet_text, items[k].snippet_hash>> :
     k \in {n \in 1..Len(items) : items[n].pattern_key = key}}

\* C17: when a scanner has scanned the record a second time, after
\* risk_phrases was reordered or extended, each pattern of the first run has
\* the same snippet texts and the same hashes in both runs, and two candidates
\* of either run with the same snippet text have the same hash.
C17_RescanSameSnippetAndHash ==
  tpc \in {"fix4_again", "edge_again"} =>
    /\ \A k \in 1..Len(tres.cands) :
         Found(tres.again, tres.cands[k].pattern_key)
           = Found(tres.cands, tres.cands[k].pattern_key)
    /\ \A c, d \in Chars(tres.cands) \cup Chars(tres.again) :
         c.snippet_text = d.snippet_text => c.snippet_hash = d.snippet_hash

\* the second run loaded the patterns in another order and found an item
C17_Witness ==
  /\ tpc \in {"fix4_again", "edge_again"}
  /\ tres.cands # <<>>
  /\ tres.again # <<>>
  /\ tres.again[1].pattern_key # tres.cands[1].pattern_key

(***************************************************************************)
(* The normalisation functions applied, each twice, to a drawn string      *)
(* (SpecNorm).                                                             *)
(***************************************************************************)
\* the characters a drawn string is made of
NormAlphabet == {"a", "A", " ", TAB, NL, CR, "~", "^", BaseLetter, CombiningMark}

\* risk-scan.mjs: normalizeTextKeepNewlines, on a string and on its own result
NormKeepNewlines ==
  /\ tpc = "drawn"
  /\ tres' = [once  |-> normalizeTextKeepNewlines(tin),
              twice |-> normalizeTextKeepNewlines(normalizeTextKeepNewlines(tin))]
  /\ tpc' = "keepnl"
  /\ UNCHANGED tin
  /\ unchangedStore

\* risk-scan.mjs: normalizeInline, on a string and on its own result
NormInline ==
  /\ tpc = "drawn"
  /\ tres' = [once  |-> normalizeInline(tin),
              twice |-> normalizeInline(normalizeInline(tin))]
  /\ tpc' = "inline"
  /\ UNCHANGED tin
  /\ unchangedStore

\* the edge function: normalizeText, on a string and on its own result
NormEdge ==
  /\ tpc = "drawn"
  /\ tres' = [once  |-> normalizeText(tin),
              twice |-> normalizeText(normalizeText(tin))]
  /\ tpc' = "edge"
  /\ UNCHANGED tin
  /\ unchangedStore

InitNorm ==
  /\ InitQueueIdle
  /\ users_tzvira = <<>>
  /\ InitScanners
  /\ InitTotalOff
  /\ InitPostOff
  /\ tin \in UNION {[1..n -> NormAlphabet] : n \in 0..MaxChars}
  /\ tpc = "drawn"
  /\ tres = <<>>

NextNorm ==
  \/ NormKeepNewlines
  \/ NormInline
  \/ NormEdge

SpecNorm == InitNorm /\ [][NextNorm]_vars

\* C18: each normalisation function is idempotent: applied to its own result
\* it returns that result (normalizeTextKeepNewlines and normalizeInline of
\* risk-scan.mjs, normalizeText of the edge function).
C18_NormalizationIdempotent ==
  tpc \in {"keepnl", "inline", "edge"} => tres.twice = tres.once

(***************************************************************************)
(* A snippet built around a match in a drawn text (SpecSnippet).           *)
(***************************************************************************)
\* the words a drawn text is made of
Words == {<<"a">>, <<"a", "b">>}

\* the subject text "ani lo rotze lichyot yoter" (one symbol per word) and the
\* pattern "rotze lichyot"
ExampleWords == << <<"ani">>, <<"lo">>, <<"rotze">>, <<"lichyot">>, <<"yoter">> >>
ExamplePattern == <<"rotze", " ", "lichyot">>

\* the normalised text of the drawn words
SnippetText == Join(tin.words, " ")

\* the spans [start, start + len) of a text a normalised pattern can match:
\* non-empty, beginning and ending on a character of a word
MatchSpans(text) ==
  {sp \in (0..(Len(text) - 1)) \X (1..Len(text)) :
     /\ sp[1] + sp[2] <= Len(text)
     /\ text[sp[1] + 1] # " "
     /\ text[sp[1] + sp[2]] # " "}

\* risk-scan.mjs: snippetByWords(patientText, idx, len, N, N)
SnipWords ==
  /\ tpc = "drawn"
  /\ tres' = [snippet |-> snippetByWords(SnippetText, tin.start, tin.len, tin.n, tin.n)]
  /\ tpc' = "words"
  /\ UNCHANGED tin
  /\ unchangedStore

\* risk_scan_build_payload.mjs: buildSnippet(hay, idx, needle.length, ctx),
\* the context being tin.n characters
SnipChars ==
  /\ tpc = "drawn"
  /\ tres' = [snippet |-> buildSnippet(SnippetText, tin.start, tin.len, tin.n)]
  /\ tpc' = "chars"
  /\ UNCHANGED tin
  /\ unchangedStore

InitSnippet ==
  /\ InitQueueIdle
  /\ users_tzvira = <<>>
  /\ InitScanners
  /\ InitTotalOff
  /\ InitPostOff
  /\ \E ws \in UNION {[1..k -> Words] : k \in 1..MaxWords} \cup {ExampleWords} :
       \E sp \in MatchSpans(Join(ws, " ")) :
         \E n \in 1..MaxN :
           tin = [words |-> ws, start |-> sp[1], len |-> sp[2], n |-> n]
  /\ tpc = "drawn"
  /\ tres = <<>>

NextSnippet ==
  \/ SnipWords
  \/ SnipChars

SpecSnippet == InitSnippet /\ [][NextSnippet]_vars

(***************************************************************************)
(* Properties of the snippet (checked under SpecSnippet).                  *)
(***************************************************************************)
\* where word k of the drawn text begins (0-based) and ends (exclusive)
RECURSIVE WordStart(_)
WordStart(k) == IF k = 1 THEN 0 ELSE WordStart(k - 1) + Len(tin.words[k - 1]) + 1
WordEnd(k) == WordStart(k) + Len(tin.words[k])

\* the words the match span overlaps, those before it and those after it
Overlapped ==
  {k \in 1..Len(tin.words) : WordStart(k) < tin.start + tin.len /\ WordEnd(k) > tin.start}
WordsBeforeMatch == Cardinality({k \in 1..Len(tin.words) : WordEnd(k) <= tin.start})
WordsAfterMatch ==
  Cardinality({k \in 1..Len(tin.words) : WordStart(k) >= tin.start + tin.len})

\* the window of the requested size does not fit into the text
AtTextBoundary ==
  IF tpc = "words" THEN WordsBeforeMatch < tin.n \/ WordsAfterMatch < tin.n
  ELSE tin.start < tin.n \/ Len(SnippetText) - (tin.start + tin.len) < tin.n

\* C19: when the match lies so close to the beginning or the end of the text
\* that the window reaches the text boundary, the snippet that was built
\* (by words or by characters) is made of the text up to that boundary and
\* carries a truncation marker.
C19_BoundarySnippetMarked ==
  (tpc \in {"words", "chars"} /\ AtTextBoundary) =>
    /\ tres.snippet # <<>>
    /\ Ellipsis \in Chars(tres.snippet)

\* the words from lo to hi, joined by single spaces
WordsJoined(lo, hi) == Join([k \in 1..(hi - lo + 1) |-> tin.words[lo + k - 1]], " ")

\* C20: snippetByWords returns, joined by single spaces, the words the match
\* span overlaps together with the min(N, words available) words before them
\* and after them; for the text "ani lo rotze lichyot yoter", the pattern
\* "rotze lichyot" and N = 2 that is the whole text.
C20_SnippetIsWordWindow ==
  tpc = "words" =>
    /\ Overlapped # {}
    /\ LET first == CHOOSE k \in Overlapped : \A j \in Overlapped : k <= j
           last  == CHOOSE k \in Overlapped : \A j \in Overlapped : j <= k
       IN  tres.snippet = WordsJoined(first - Least(tin.n, first - 1),
                                      last + Least(tin.n, Len(tin.words) - last))
    /\ (/\ tin.words = ExampleWords
        /\ tin.start = indexOf(SnippetText, ExamplePattern, 0)
        /\ tin.len = Len(ExamplePattern)
        /\ tin.n = 2) => tres.snippet = SnippetText

\* the snippet of the example was built, the pattern being found at word 3
C20_Witness ==
  /\ tpc = "words"
  /\ tin.words = ExampleWords
  /\ tin.start = 4 /\ tin.start = indexOf(SnippetText, ExamplePattern, 0)
  /\ tin.len = Len(ExamplePattern)
  /\ tin.n = 2
  /\ tres.snippet = <<"ani", " ", "lo", " ", "rotze", " ", "lichyot", " ", "yoter">>

(***************************************************************************)
(* The ruleset a scan loads from a drawn risk_phrases table (SpecRules).   *)
(***************************************************************************)
\* the pattern texts a drawn risk_phrases row may hold
RulePatterns == {<<>>, <<"a">>, <<"A">>, <<"a", "b">>, <<" ", "a">>}

\* the risk_phrases tables drawn: rows in the order the store returns them
\* when no order is asked for (by ascending or by descending id)
RuleTables ==
  UNION {{[i \in 1..n |-> [id |-> ids[i], pattern_key |-> <<"k1", "k2", "k3", "k4">>[ids[i]],
                            pattern |-> ps[i], is_active |-> act[i]]] :
            ids \in {[i \in 1..n |-> i], [i \in 1..n |-> n + 1 - i]},
            ps \in [1..n -> RulePatterns], act \in [1..n -> BOOLEAN]} :
         n \in 0..MaxPhrases}

\* risk-scan.mjs (FIX4), main(): patterns = await loadActivePatterns()
RulesLoadFix4 ==
  /\ tpc = "drawn"
  /\ tres' = loadActivePatterns(tin)
  /\ tpc' = "rules_fix4"
  /\ UNCHANGED tin
  /\ unchangedStore

\* the edge function, scanIncremental: phrases = await fetchActivePhrases(admin)
\* and compiled; an entry's text is the literal its regular expression matches
RulesLoadEdge ==
  /\ tpc = "drawn"
  /\ tres' = LET compiled == Compiled(fetchActivePhrases(tin))
             IN  [i \in 1..Len(compiled) |->
                    [pattern_key |-> compiled[i].phrase.pattern_key,
                     pattern_norm |-> compiled[i].re.lit]]
  /\ tpc' = "rules_edge"
  /\ UNCHANGED tin
  /\ unchangedStore

\* risk-scan.mjs (FIX4), main(): if (patterns.length === 0) { console.log(...);
\* return; }, the process then ending with code 0; otherwise the rows are scanned
RulesFix4Check ==
  /\ tpc = "rules_fix4"
  /\ tpc' = IF Len(tres) = 0 THEN "fix4_exit0" ELSE "fix4_scan"
  /\ UNCHANGED <<tin, tres>>
  /\ unchangedStore

\* the edge function, scanIncremental: the batch is scanned with whatever
\* compiled holds and the request is answered { ok: true, ... }
RulesEdgeScan ==
  /\ tpc = "rules_edge"
  /\ tpc' = "edge_ok"
  /\ UNCHANGED <<tin, tres>>
  /\ unchangedStore

InitRules ==
  /\ InitQueueIdle
  /\ users_tzvira = <<>>
  /\ InitScanners
  /\ InitTotalOff
  /\ InitPostOff
  /\ tin \in RuleTables
  /\ tpc = "drawn"
  /\ tres = <<>>

NextRules ==
  \/ RulesLoadFix4
  \/ RulesLoadEdge
  \/ RulesFix4Check
  \/ RulesEdgeScan

SpecRules == InitRules /\ [][NextRules]_vars

\* C21: the ruleset a scan has loaded holds only patterns of rows that are
\* active and whose normalised text is not empty, holds no normalised pattern
\* twice, and lists the patterns in non-increasing order of normalised length.
C21_RulesetActiveUniqueLongestFirst ==
  tpc \in {"rules_fix4", "rules_edge"} =>
    /\ \A k \in 1..Len(tres) :
         \E r \in 1..Len(tin) : /\ tin[r].pattern_key = tres[k].pattern_key
                                /\ tin[r].is_active
                                /\ normalizeInline(tin[r].pattern) # <<>>
                                /\ tres[k].pattern_norm # <<>>
    /\ \A k, l \in 1..Len(tres) :
         k # l => normalizeInline(tres[k].pattern_norm) # normalizeInline(tres[l].pattern_norm)
    /\ \A k \in 1..(Len(tres) - 1) :
         Len(tres[k].pattern_norm) >= Len(tres[k + 1].pattern_norm)

\* the scan has ended as a success: exit code 0, or the result { ok: true }
ScanSucceeded == tpc \in {"fix4_exit0", "edge_ok"}

\* C24: a scan that found no active pattern in its ruleset when it started
\* does not end as a successful run.
C24_EmptyRulesetFailsScan ==
  (tpc \in {"fix4_exit0", "fix4_scan", "edge_ok"} /\ tres = <<>>) => ~ScanSucceeded

(***************************************************************************)
(* Further properties of the queue (checked under SpecQueue).              *)
(***************************************************************************)
\* the claimOne() calls worker w has made: those that returned a job, those
\* that returned an empty result and the one that threw
ClaimCalls(w) ==
  Cardinality({p \in JobIds \X (1..MaxQueue) :
                 p[2] <= Len(claimedBy[p[1]]) /\ claimedBy[p[1]][p[2]] = w})
    + emptyClaims[w] + (IF wfail[w] = "claim" THEN 1 ELSE 0)

\* C22: a run of the queue driver makes at most MAX_JOBS_PER_RUN claimOne()
\* calls; it makes no call after one that returned an empty result, and after
\* an empty result it goes to its summary and ends normally, not as an error.
C22_RunBoundedAndStopsOnEmpty ==
  \A w \in Workers :
    /\ ClaimCalls(w) <= MAX_JOBS_PER_RUN
    /\ emptyClaims[w] <= 1
    /\ emptyClaims[w] = 1 => (wpc[w] \in {"summary", "exit0"} /\ wfail[w] = "none")

\* one run has ended at the cap after MAX_JOBS_PER_RUN jobs, another has
\* ended at its first empty claim
C22_Witness ==
  \E w1, w2 \in Workers :
    /\ w1 # w2
    /\ ClaimCalls(w1) = MAX_JOBS_PER_RUN /\ emptyClaims[w1] = 0 /\ wpc[w1] = "exit0"
    /\ emptyClaims[w2] = 1 /\ wpc[w2] = "exit0"

\* the job was held by its worker when that worker was killed: no finish
\* call for it had taken effect
HeldAtKill(j) ==
  /\ claimedBy[j] # <<>>
  /\ wpc[Owner(j)] = "killed"
  /\ \A k \in 1..Len(finishLog[j]) : ~finishLog[j][k].ok

\* C23: a job whose worker was killed after claimOne() returned it and before
\* a finish call for it took effect is in PROCESSING, and stays there: no
\* worker, no store procedure and no reconcile step sets it to ERROR or DONE.
C23_KilledWorkerLeavesProcessing ==
  \A j \in JobIds : HeldAtKill(j) => process_queue[j].status = "PROCESSING"

\* a worker was killed holding job 1; the other worker has since run to its
\* end and the reconcile step has run, and the job is still in PROCESSING
C23_Witness ==
  /\ HeldAtKill(1)
  /\ process_queue[1].status = "PROCESSING"
  /\ \E w \in Workers : wpc[w] = "exit0"
  /\ rpc = "loop"

\* the run of worker w has printed its summary line: the process exits with
\* code 0 only from the statement after it
SummaryEmitted(w) == wpc[w] = "exit0"

\* C25: every run of the queue driver that has exited, a run in which jobs
\* failed included, has emitted its summary line before it exited.
C25_RunEndsWithSummary ==
  \A w \in Workers : wpc[w] \in {"exit0", "exit1"} => SummaryEmitted(w)

(***************************************************************************)
(* Further properties of the writers of risk_reviews (checked under        *)
(* SpecReview).                                                            *)
(***************************************************************************)
\* C26: no step of a scan changes users_tzvira; a scan step only adds rows to
\* risk_reviews, and risk_scan_state.last_time_key is changed by nothing but
\* the saveWatermark call of a scan_incremental run.
C26_ScanWritesOnlyReviewsAndWatermark ==
  [][nreviews' = nreviews =>
       /\ users_tzvira' = users_tzvira
       /\ Len(risk_reviews') >= Len(risk_reviews)
       /\ last_time_key' # last_time_key =>
            \E s \in Scanners : /\ svar[s] = "edge" /\ spc[s] = "save"
                                /\ spc'[s] = "done"]_vars

\* a full scan and a scan_incremental run have both written: items are
\* stored, the watermark has moved, and the record is as it was
C26_Witness ==
  /\ "fix4" \in doneOnce
  /\ \E s \in Scanners : svar[s] = "edge" /\ swrote[s]
  /\ last_time_key > 0
  /\ risk_reviews # <<>>
  /\ users_tzvira = <<UsersRow(1, 1)>>


(***************************************************************************)
(* process_users_total.mjs: the summarisation step over users_total.       *)
(* Two scripts of this name are modelled: the one that lists NEW rows and  *)
(* counts the rows its claim updated ("single"), and the one with risk     *)
(* splitting, which lists NEW and IN_PROGRESS rows ("split").              *)
(***************************************************************************)
\* the processed values a users_total row starts a behaviour with
ProcessedAtStart == {"NEW", "IN_PROGRESS"}

ELIGIBLE_PROCESSED_STATES == {"NEW", "IN_PROGRESS"}

\* the processed values the listing of a script selects
ListedStates(variant) == IF variant = "single" THEN {"NEW"} ELSE ELIGIBLE_PROCESSED_STATES

\* supaGetNewRows / supaGetEligibleRows: the selected rows, order phone.asc,
\* limit MAX_ITEMS
supaGetEligibleRows(variant) ==
  LET sel == SelectSeq([u \in UTIds |-> u],
                       LAMBDA u : users_total[u] \in ListedStates(variant))
  IN  IF Len(sel) <= MAX_ITEMS THEN sel ELSE SubSeq(sel, 1, MAX_ITEMS)

\* the mutation of supaPatchByPhoneAndProcessed without the processed filter
supaPatch_Unfiltered(phone, expectedProcessed, processed) ==
  [table |-> [users_total EXCEPT ![phone] = processed], count |-> 1]

\* PATCH users_total?phone=eq.<phone>[&processed in expectedProcessed]: the
\* table after the request and the number of rows in the representation
\* returned; an empty (null) expectedProcessed puts no filter
supaPatchByPhoneAndProcessed(phone, expectedProcessed, processed) ==
  IF expectedProcessed = {} \/ users_total[phone] \in expectedProcessed
  THEN [table |-> [users_total EXCEPT ![phone] = processed], count |-> 1]
  ELSE [table |-> users_total, count |-> 0]

\* the row of the current iteration
Row(r) == prows[r][pidx[r]]

\* the PATCH of run r on row u stored the value v
Wrote(r, u, v, count) ==
  IF count = 1 THEN [pwrote EXCEPT ![r][u] = Append(@, v)] ELSE pwrote

NextRow(r) ==
  /\ pidx' = [pidx EXCEPT ![r] = @ + 1]
  /\ ppc' = [ppc EXCEPT ![r] = "loop"]

Throw(r) ==
  /\ ppc' = [ppc EXCEPT ![r] = "caught"]
  /\ UNCHANGED pidx

unchangedOutsideTotal ==
  UNCHANGED <<process_queue, wpc, wi, wjob, wtriggered, wcount, wfail, rpc, rrows,
              rinserted, rskipped, rfound, claimedBy, emptyClaims, badEmpty,
              finishLog, childFailed, scanVars, textVars, pvariant, postVars>>

\* main(): the reads before the loop; a failing read leaves through main().catch
TotalList(r) ==
  /\ ppc[r] = "start"
  /\ \E fault \in Faulty :
       /\ faults' = Bump(fault)
       /\ IF fault
          THEN /\ ppc' = [ppc EXCEPT ![r] = "exit1"]
               /\ UNCHANGED prows
          ELSE /\ prows' = [prows EXCEPT ![r] = supaGetEligibleRows(pvariant)]
               /\ ppc' = [ppc EXCEPT ![r] = "loop"]
  /\ UNCHANGED <<users_total, pidx, pskipped, pcalled, pwrote, pinserted>>
  /\ unchangedOutsideTotal

\* processOneRow up to the claim.  "split" throws when the listed row has no
\* talk text and goes on whatever the claim updated; "single" returns when the
\* claim updated no row.
TotalClaim(r) ==
  /\ ppc[r] = "loop"
  /\ pidx[r] <= Len(prows[r])
  /\ \E talk \in BOOLEAN, fault \in Faulty :
       LET u == Row(r)
           res == supaPatchByPhoneAndProcessed(u, ListedStates(pvariant), "processing")
       IN  IF pvariant = "split" /\ ~talk
           THEN /\ Throw(r)
                /\ UNCHANGED <<users_total, faults, pskipped, pwrote>>
           ELSE /\ faults' = Bump(fault)
                /\ IF fault
                   THEN /\ Throw(r)
                        /\ UNCHANGED <<users_total, pskipped, pwrote>>
                   ELSE /\ users_total' = res.table
                        /\ pwrote' = Wrote(r, u, "processing", res.count)
                        /\ IF pvariant = "single" /\ res.count = 0
                           THEN /\ pskipped' = pskipped \cup {<<r, u>>}
                                /\ NextRow(r)
                           ELSE /\ ppc' = [ppc EXCEPT ![r] = "openai"]
                                /\ UNCHANGED <<pskipped, pidx>>
  /\ UNCHANGED <<prows, pcalled, pinserted>>
  /\ unchangedOutsideTotal

\* callOpenAIToSummarize / callOpenAISummary and callOpenAIRisk
TotalOpenAI(r) ==
  /\ ppc[r] = "openai"
  /\ pcalled' = pcalled \cup {<<r, Row(r)>>}
  /\ \E ok \in BOOLEAN :
       IF ok THEN ppc' = [ppc EXCEPT ![r] = "final"] /\ UNCHANGED pidx
             ELSE Throw(r)
  /\ UNCHANGED <<users_total, faults, prows, pskipped, pwrote, pinserted>>
  /\ unchangedOutsideTotal

\* the final update, filtered on processed = processing; its count is not read
TotalFinal(r) ==
  /\ ppc[r] = "final"
  /\ \E fault \in Faulty :
       LET u == Row(r)
           res == supaPatchByPhoneAndProcessed(u, {"processing"}, "DONE")
       IN  /\ faults' = Bump(fault)
           /\ IF fault
              THEN /\ Throw(r)
                   /\ UNCHANGED <<users_total, pwrote>>
              ELSE /\ users_total' = res.table
                   /\ pwrote' = Wrote(r, u, "DONE", res.count)
                   /\ IF pvariant = "single"
                      THEN NextRow(r)
                      ELSE ppc' = [ppc EXCEPT ![r] = "snapshot"] /\ UNCHANGED pidx
  /\ UNCHANGED <<prows, pskipped, pcalled, pinserted>>
  /\ unchangedOutsideTotal

\* insertUsersTzviraRow ("split")
TotalInsertSnapshot(r) ==
  /\ ppc[r] = "snapshot"
  /\ \E fault \in Faulty :
       /\ faults' = Bump(fault)
       /\ IF fault
          THEN Throw(r) /\ UNCHANGED pinserted
          ELSE /\ pinserted' = pinserted \cup {<<r, Row(r), "users_tzvira">>}
               /\ ppc' = [ppc EXCEPT ![r] = "reviews"]
               /\ UNCHANGED pidx
  /\ UNCHANGED <<users_total, prows, pskipped, pcalled, pwrote>>
  /\ unchangedOutsideTotal

\* insertRiskReviewsRows ("split"), only when risk_reasons gave rows
TotalInsertReviews(r) ==
  /\ ppc[r] = "reviews"
  /\ \E reasons \in BOOLEAN, fault \in Faulty :
       IF ~reasons
       THEN NextRow(r) /\ UNCHANGED <<faults, pinserted>>
       ELSE /\ faults' = Bump(fault)
            /\ IF fault
               THEN Throw(r) /\ UNCHANGED pinserted
               ELSE /\ pinserted' = pinserted \cup {<<r, Row(r), "risk_reviews">>}
                    /\ NextRow(r)
  /\ UNCHANGED <<users_total, prows, pskipped, pcalled, pwrote>>
  /\ unchangedOutsideTotal

\* markError, from the catch of main()'s loop: PATCH with no processed filter;
\* its own failure is logged and swallowed
markError(r) ==
  /\ ppc[r] = "caught"
  /\ \E fault \in Faulty :
       LET u == Row(r)
           res == supaPatchByPhoneAndProcessed(u, {}, "ERROR")
       IN  /\ faults' = Bump(fault)
           /\ IF fault
              THEN UNCHANGED <<users_total, pwrote>>
              ELSE /\ users_total' = res.table
                   /\ pwrote' = Wrote(r, u, "ERROR", res.count)
  /\ NextRow(r)
  /\ UNCHANGED <<prows, pskipped, pcalled, pinserted>>
  /\ unchangedOutsideTotal

\* "Run complete."
TotalDone(r) ==
  /\ ppc[r] = "loop"
  /\ pidx[r] > Len(prows[r])
  /\ ppc' = [ppc EXCEPT ![r] = "done"]
  /\ UNCHANGED <<users_total, faults, prows, pidx, pskipped, pcalled, pwrote, pinserted>>
  /\ unchangedOutsideTotal

\* two invocations of the same script started over the same table
InitTotal ==
  /\ InitQueueRest
  /\ users_total \in [UTIds -> ProcessedAtStart]
  /\ process_queue = <<>>
  /\ users_tzvira = <<>>
  /\ InitScanners
  /\ InitTextOff
  /\ InitPostOff
  /\ pvariant \in {"single", "split"}
  /\ ppc = [r \in Runs |-> "start"]
  /\ prows = [r \in Runs |-> <<>>]
  /\ pidx = [r \in Runs |-> 1]
  /\ pskipped = {} /\ pcalled = {} /\ pinserted = {}
  /\ pwrote = [r \in Runs |-> [u \in UTIds |-> <<>>]]

NextTotal ==
  \/ \E r \in Runs : TotalList(r)
  \/ \E r \in Runs : TotalClaim(r)
  \/ \E r \in Runs : TotalOpenAI(r)
  \/ \E r \in Runs : TotalFinal(r)
  \/ \E r \in Runs : TotalInsertSnapshot(r)
  \/ \E r \in Runs : TotalInsertReviews(r)
  \/ \E r \in Runs : markError(r)
  \/ \E r \in Runs : TotalDone(r)

SpecTotal == InitTotal /\ [][NextTotal]_vars


\* the claim of run r on row u updated the row
ClaimTookEffect(r, u) == pwrote[r][u] # <<>> /\ Head(pwrote[r][u]) = "processing"

\* C27: in process_users_total (NEW rows only), when two runs have listed
\* the same row as NEW, the claim filtered on processed = NEW takes effect
\* for at most one of them; the run that sees 0 updated rows skips the row:
\* no OpenAI call, no write and no insert by it for that row.
C27_ConditionalClaimExclusive ==
  pvariant = "single" =>
    \A u \in UTIds :
      /\ Cardinality({r \in Runs : ClaimTookEffect(r, u)}) <= 1
      /\ \A r \in Runs :
           <<r, u>> \in pskipped =>
             /\ <<r, u>> \notin pcalled
             /\ pwrote[r][u] = <<>>
             /\ \A t \in {"users_tzvira", "risk_reviews"} : <<r, u, t>> \notin pinserted

\* both runs listed the row; one claimed it and finished it, the other
\* skipped it and completed its run
C27_Witness ==
  /\ pvariant = "single"
  /\ \E u \in UTIds, r1, r2 \in Runs :
       /\ r1 # r2
       /\ pwrote[r1][u] = <<"processing", "DONE">>
       /\ <<r2, u>> \in pskipped
       /\ ppc[r2] = "done"


\* the moves of users_total.processed the header of the script names
LifecycleMoves ==
  {<<"NEW", "processing">>, <<"IN_PROGRESS", "processing">>,
   <<"processing", "DONE">>, <<"processing", "ERROR">>}

\* run r stored DONE on row u and stored ERROR on it afterwards
ErrorAfterDone(r, u) ==
  \E i, j \in 1..Len(pwrote[r][u]) :
    i < j /\ pwrote[r][u][i] = "DONE" /\ pwrote[r][u][j] = "ERROR"

\* C28: in the variant with risk splitting, processed moves only from NEW or
\* IN_PROGRESS to processing and from processing to DONE or ERROR, and a row
\* a run has set to DONE is not set to ERROR afterwards by the same run.
C28_ProcessedLifecycle ==
  /\ [][pvariant = "split" =>
          \A u \in UTIds :
            users_total'[u] # users_total[u] =>
              <<users_total[u], users_total'[u]>> \in LifecycleMoves]_vars
  /\ [](pvariant = "split" => \A r \in Runs, u \in UTIds : ~ErrorAfterDone(r, u))

\* the same-run part of C28 alone
C28_NoErrorAfterOwnDone ==
  pvariant = "split" => \A r \in Runs, u \in UTIds : ~ErrorAfterDone(r, u)


\* the runs that called OpenAI for row u, and those that inserted for it into table t
RunsCalled(u) == {r \in Runs : <<r, u>> \in pcalled}

RunsInserted(u, t) == {r \in Runs : <<r, u, t>> \in pinserted}

\* C29: in the variant with risk splitting, a row that is eligible when
\* listed is processed (OpenAI called, users_tzvira snapshot inserted,
\* risk_reviews rows inserted) by at most one of two concurrent invocations.
C29_ProcessedByAtMostOneRun ==
  pvariant = "split" =>
    \A u \in UTIds :
      /\ Cardinality(RunsCalled(u)) <= 1
      /\ Cardinality(RunsInserted(u, "users_tzvira")) <= 1
      /\ Cardinality(RunsInserted(u, "risk_reviews")) <= 1


(***************************************************************************)
(* reconcile_new_to_queue.mjs alone, over a queue that holds at most one   *)
(* job already, with inserts that may report an error.                     *)
(***************************************************************************)
ActiveStatuses == {"NEW", "PROCESSING"}

\* the queues a reconcile run may find: they satisfy the partial unique index
QueuesAtStart ==
  {q \in UNION {[1..n -> [users_total_id : UTIds,
                          status : {"NEW", "PROCESSING", "DONE", "ERROR"},
                          last_error : {"null"}]] : n \in 0..(MaxQueue - 1)} :
     \A i, j \in DOMAIN q :
       (i # j /\ q[i].users_total_id = q[j].users_total_id)
         => ~(q[i].status \in ActiveStatuses /\ q[j].status \in ActiveStatuses)}

InitReconcile ==
  /\ InitQueueRest
  /\ users_total \in [UTIds -> {"NEW", "DONE"}]
  /\ process_queue \in QueuesAtStart
  /\ users_tzvira = <<>>
  /\ InitScanners
  /\ InitTextOff
  /\ InitTotalOff
  /\ InitPostOff

RunReconcile ==
  \/ ReconcileSelect
  \/ \E fault \in BOOLEAN : ReconcileInsert(fault)
  \/ ReconcileDone

NextReconcile == RunReconcile /\ UNCHANGED <<scanVars, textVars, totalVars, postVars>>

SpecReconcile == InitReconcile /\ [][NextReconcile]_vars

\* the active jobs of users_total row u in queue q
ActiveJobs(q, u) ==
  {j \in DOMAIN q : q[j].users_total_id = u /\ q[j].status \in ActiveStatuses}

\* C30: for every users_total row a reconcile run found NEW, once its
\* iteration is over the row has exactly one active (NEW or PROCESSING) job:
\* a job is inserted when none is active, no second one is created when one
\* exists; and at the end of the run inserted + skipped = foundNew.
C30_ReconcileCoversFoundRows ==
  [][/\ (rpc = "loop" /\ rrows # <<>> /\ rrows' = Tail(rrows)) =>
          LET u == Head(rrows) IN
            /\ Cardinality(ActiveJobs(process_queue', u)) = 1
            /\ ActiveJobs(process_queue, u) = {} =>
                 /\ Len(process_queue') = Len(process_queue) + 1
                 /\ rinserted' = rinserted + 1
            /\ ActiveJobs(process_queue, u) # {} =>
                 /\ process_queue' = process_queue
                 /\ rskipped' = rskipped + 1
     /\ (rpc = "loop" /\ rpc' = "idle") => rinserted + rskipped = rfound]_vars


\* C31: a queue job is finished DONE only after the child process of its
\* users_total id exited with code 0; after a non-zero exit code or a spawn
\* error the worker calls finish ERROR for the job (unless it is killed first),
\* never finish DONE, and the job never becomes DONE; a failed workflow
\* dispatch does not change the outcome: the worker goes to the catch before
\* any finish call exactly when the child failed.
C31_DoneOnlyAfterChildSuccess ==
  \A j \in JobIds :
    /\ \A k \in 1..Len(finishLog[j]) :
         finishLog[j][k].status = "DONE" => ~childFailed[j]
    /\ (childFailed[j] /\ j \in DOMAIN process_queue) => process_queue[j].status # "DONE"
    /\ (childFailed[j] /\ wpc[Owner(j)] # "killed" /\ wjob[Owner(j)].id # j)
         => \E k \in 1..Len(finishLog[j]) : finishLog[j][k].status = "ERROR"
    /\ \A w \in Workers :
         (wjob[w].id = j /\ finishLog[j] = <<>>)
           => (wpc[w] = "finishError" <=> childFailed[j])

\* one job's child failed and the job was finished ERROR; another job's child
\* exited 0, the dispatch after it failed, and the job was finished DONE
C31_Witness ==
  \E j1, j2 \in JobIds :
    /\ childFailed[j1]
    /\ Len(finishLog[j1]) = 1 /\ finishLog[j1][1].status = "ERROR" /\ finishLog[j1][1].ok
    /\ process_queue[j1].status = "ERROR"
    /\ claimedBy[j2] # <<>> /\ ~childFailed[j2]
    /\ Len(finishLog[j2]) = 1 /\ finishLog[j2][1].status = "DONE" /\ finishLog[j2][1].ok
    /\ process_queue[j2].status = "DONE"
    /\ wpc[Owner(j2)] = "claim" /\ ~wtriggered[Owner(j2)]


(***************************************************************************)
(* postprocess_short_summarized_worker.mjs: one run of main() over         *)
(* users_total_postprocess_queue.                                          *)
(***************************************************************************)
TaskIds == 1..MaxTasks

\* rpc dequeue_users_total_postprocess: the lowest NEW task, taken out of NEW
\* (0: the result is empty)
dequeue_users_total_postprocess(q) ==
  IF \E t \in DOMAIN q : q[t] = "NEW"
  THEN LET t == Min({k \in DOMAIN q : q[k] = "NEW"}) IN
       [picked |-> t, queue |-> [q EXCEPT ![t] = "PROCESSING"]]
  ELSE [picked |-> 0, queue |-> q]

\* supaMarkQueue: PATCH by queue_id, then by id; throws when both fail
supaMarkQueue(q, queueId, status, fails) ==
  IF fails THEN [queue |-> q, threw |-> TRUE]
  ELSE [queue |-> [q EXCEPT ![queueId] = status], threw |-> FALSE]

unchangedOutsidePost == UNCHANGED <<queueVars, scanVars, textVars, totalVars>>

\* main(): the loop test fails, "Reached MAX_TASKS_PER_RUN"
PostCap ==
  /\ qpc = "dequeue"
  /\ ~(qprocessed < MAX_TASKS_PER_RUN)
  /\ qpc' = "exited" /\ qwhy' = "cap"
  /\ UNCHANGED <<post_queue, qprocessed, qtask, exitCode, qfailed, qmarkFailed>>
  /\ unchangedOutsidePost

\* main(): supaRpc("dequeue_users_total_postprocess"); its throw is outside the
\* try and ends main() (unhandled rejection, exit code 1); an empty result
\* returns
PostDequeue ==
  /\ qpc = "dequeue"
  /\ qprocessed < MAX_TASKS_PER_RUN
  /\ \E fails \in BOOLEAN :
       LET r == dequeue_users_total_postprocess(post_queue) IN
       IF fails
       THEN /\ qpc' = "exited" /\ qwhy' = "rpc" /\ exitCode' = 1
            /\ UNCHANGED <<post_queue, qtask>>
       ELSE /\ post_queue' = r.queue
            /\ qtask' = r.picked
            /\ UNCHANGED exitCode
            /\ IF r.picked = 0
               THEN qpc' = "exited" /\ qwhy' = "empty"
               ELSE qpc' = "handle" /\ UNCHANGED qwhy
  /\ UNCHANGED <<qprocessed, qfailed, qmarkFailed>>
  /\ unchangedOutsidePost

\* main(), the try: select, OpenAI, update, supaMarkQueue(queueId, "DONE");
\* any of them may throw (threw), the DONE mark being the last
PostHandle ==
  /\ qpc = "handle"
  /\ \E threw \in BOOLEAN :
       IF threw
       THEN /\ qpc' = "catch"
            /\ qfailed' = qfailed \cup {qtask}
            /\ UNCHANGED <<post_queue, qprocessed, qtask>>
       ELSE /\ post_queue' = supaMarkQueue(post_queue, qtask, "DONE", FALSE).queue
            /\ qprocessed' = qprocessed + 1
            /\ qtask' = 0
            /\ qpc' = "dequeue"
            /\ UNCHANGED qfailed
  /\ UNCHANGED <<exitCode, qmarkFailed, qwhy>>
  /\ unchangedOutsidePost

\* a catch whose failing ERROR mark is not caught: it ends main()
PostMarkError_Rethrows ==
  /\ qpc = "catch"
  /\ \E fails \in BOOLEAN :
       LET r == supaMarkQueue(post_queue, qtask, "ERROR", fails) IN
       /\ post_queue' = r.queue
       /\ exitCode' = 1
       /\ IF r.threw
          THEN /\ qmarkFailed' = qmarkFailed \cup {qtask}
               /\ qpc' = "exited" /\ qwhy' = "rpc"
               /\ UNCHANGED <<qprocessed, qtask>>
          ELSE /\ qprocessed' = qprocessed + 1
               /\ qtask' = 0
               /\ qpc' = "dequeue"
               /\ UNCHANGED <<qmarkFailed, qwhy>>
  /\ UNCHANGED qfailed
  /\ unchangedOutsidePost

\* main(), the catch: supaMarkQueue(queueId, "ERROR", msg) in its own try,
\* process.exitCode = 1, then processed += 1 and the next iteration
PostMarkError ==
  /\ qpc = "catch"
  /\ \E fails \in BOOLEAN :
       LET r == supaMarkQueue(post_queue, qtask, "ERROR", fails) IN
       /\ post_queue' = r.queue
       /\ qmarkFailed' = IF r.threw THEN qmarkFailed \cup {qtask} ELSE qmarkFailed
  /\ exitCode' = 1
  /\ qprocessed' = qprocessed + 1
  /\ qtask' = 0
  /\ qpc' = "dequeue"
  /\ UNCHANGED <<qfailed, qwhy>>
  /\ unchangedOutsidePost

InitPost ==
  /\ InitQueueIdle
  /\ users_tzvira = <<>>
  /\ InitScanners
  /\ InitTextOff
  /\ InitTotalOff
  /\ post_queue \in [TaskIds -> {"NEW", "DONE"}]
  /\ qpc = "dequeue" /\ qprocessed = 0 /\ qtask = 0 /\ exitCode = 0
  /\ qfailed = {} /\ qmarkFailed = {} /\ qwhy = "none"

NextPost ==
  \/ PostCap
  \/ PostDequeue
  \/ PostHandle
  \/ PostMarkError

SpecPost == InitPost /\ [][NextPost]_vars

\* C32: in the postprocess worker, a task whose handling failed is marked
\* ERROR unless that write failed too (then it stays as dequeued); neither
\* failure ends the loop, which goes on to dequeue until the queue is empty,
\* the cap is reached or the dequeue itself fails; and once a task has failed
\* the exit code is 1, whatever the later tasks do.
C32_TaskFailureMarkedNotFatal ==
  /\ \A t \in qfailed :
       t # qtask =>
         /\ post_queue[t] = (IF t \in qmarkFailed THEN "PROCESSING" ELSE "ERROR")
         /\ exitCode = 1
  /\ qmarkFailed \subseteq qfailed
  /\ qpc = "exited" =>
       /\ qwhy \in {"empty", "cap", "rpc"}
       /\ qwhy = "empty" => \A t \in TaskIds : post_queue[t] # "NEW"
       /\ qwhy = "cap" => qprocessed >= MAX_TASKS_PER_RUN
       /\ qwhy = "rpc" => qtask = 0

\* the first task failed and its ERROR mark failed, the second failed and was
\* marked ERROR, a later task succeeded, and the run ended with exit code 1
C32_Witness ==
  /\ qpc = "exited"
  /\ exitCode = 1
  /\ \E t1, t2, t3 \in TaskIds :
       /\ t1 < t2 /\ t2 < t3
       /\ t1 \in qmarkFailed /\ post_queue[t1] = "PROCESSING"
       /\ t2 \in qfailed \ qmarkFailed /\ post_queue[t2] = "ERROR"
       /\ t3 \notin qfailed /\ post_queue[t3] = "DONE" /\ qprocessed = 3


(***************************************************************************)
(* scan_incremental requests that may overlap, over a users_tzvira that    *)
(* holds two unscanned records with different time keys.                   *)
(***************************************************************************)
InitOverlap ==
  /\ InitQueueIdle
  /\ users_tzvira = <<UsersRow(1, 1), UsersRow(2, 2)>>
  /\ InitScanners
  /\ InitTextOff
  /\ InitTotalOff
  /\ InitPostOff

OverlapStep ==
  \/ \E s \in Scanners : IncrLoadWatermark(s)
  \/ \E s \in Scanners : IncrFetch(s)
  \/ \E s \in Scanners : IncrUpsert(s)
  \/ \E s \in Scanners : IncrSaveWatermark(s)
  \/ \E s \in Scanners : ScannerExit(s)

NextOverlap == OverlapStep /\ UNCHANGED <<textVars, totalVars, postVars>>

SpecOverlap == InitOverlap /\ [][NextOverlap]_vars

\* run s has saved its watermark and has not yet returned its response
Saved(s) == spc[s] = "done" /\ sbatch[s] # <<>>

\* C33: when two scan_incremental runs overlap, last_time_key after both
\* have finished is not lower than the highest value either run saved.
C33_OverlapKeepsHighestWatermark ==
  (\A s \in Scanners : spc[s] = "done") =>
    \A s \in Scanners : Saved(s) => last_time_key >= swm[s]


(***************************************************************************)
(* scan_incremental runs, one at a time, whose bulk insert may fail.       *)
(***************************************************************************)
\* a run whose failing upsert comes after the watermark was saved
IncrUpsertFails_AfterSave(s) ==
  /\ spc[s] = "upsert" /\ svar[s] = "edge"
  /\ swork[s] # <<>>
  /\ last_time_key' = swm[s]
  /\ spc' = [spc EXCEPT ![s] = "exit1"]
  /\ UNCHANGED <<users_tzvira, risk_reviews, nreviews, svar, swork, sstart, sbatch,
                 swm, swrote, safter, doneOnce, scanned, ignoredDecided, leftBehind>>
  /\ unchangedQueue

\* upsertRiskReviews: the store reports an error, `if (error) throw error`;
\* the throw leaves scanIncremental before saveWatermark and the handler
\* answers 500
IncrUpsertFails(s) ==
  /\ spc[s] = "upsert" /\ svar[s] = "edge"
  /\ swork[s] # <<>>
  /\ spc' = [spc EXCEPT ![s] = "exit1"]
  /\ UNCHANGED <<users_tzvira, risk_reviews, last_time_key, nreviews, svar, swork, sstart,
                 sbatch, swm, swrote, safter, doneOnce, scanned, ignoredDecided, leftBehind>>
  /\ unchangedQueue

IncrFailStep ==
  \/ IncrStep
  \/ \E s \in Scanners : IncrUpsertFails(s)

NextIncrFail == IncrFailStep /\ UNCHANGED <<textVars, totalVars, postVars>>

SpecIncrFail == InitIncr /\ [][NextIncrFail]_vars

\* every item of rows has its row in rr
AllStored(rr, rows) == \A k \in 1..Len(rows) : UniqueViolation(rr, rows[k])

\* C34: when the bulk insert of a scan_incremental run fails, the watermark
\* is left at the value the run started from, so every record of its batch is
\* still above it and is read again; saveWatermark is reached only from an
\* upsert that succeeded, all the run's items being stored by then.
C34_FailedInsertKeepsWatermark ==
  [][\A s \in Scanners :
       /\ (spc[s] = "upsert" /\ spc'[s] = "exit1") =>
            /\ last_time_key' = last_time_key
            /\ last_time_key' = sstart[s]
            /\ risk_reviews' = risk_reviews
            /\ \A k \in 1..Len(sbatch[s]) :
                 users_tzvira'[sbatch[s][k]].time > last_time_key'
       /\ (svar[s] = "edge" /\ spc[s] # "save" /\ spc'[s] = "save") =>
            /\ spc[s] = "upsert"
            /\ last_time_key' = last_time_key
            /\ AllStored(risk_reviews', swork[s])
       /\ (spc[s] = "exit1" /\ spc'[s] # "exit1") => last_time_key' = last_time_key]_vars

\* a run's bulk insert failed; the next run read the same batch again and
\* stored the items the failed run had found
C34_Witness ==
  \E s, t \in Scanners :
    /\ s # t
    /\ spc[s] = "exit1" /\ svar[s] = "edge" /\ swork[s] # <<>>
    /\ spc[t] = "done" /\ svar[t] = "edge" /\ sbatch[t] = sbatch[s]
    /\ AllStored(risk_reviews, swork[s])
    /\ last_time_key > sstart[s]


(***************************************************************************)
(* scan_incremental runs and repeated update_risk_status calls on the      *)
(* items they store.                                                       *)
(***************************************************************************)
\* the Deno.serve dispatch of update_risk_status: parameters that fail the
\* check are answered 400 and an item that does not exist 404, both without a
\* write; otherwise the patch is applied to the one matching row
UpdateRiskStatusCall ==
  /\ nreviews < MaxStatusCalls
  /\ \E status \in ReviewStatus \cup {"other"} : \E i \in 1..(Len(risk_reviews) + 1) :
       risk_reviews' = IF status \in ReviewStatus /\ i <= Len(risk_reviews)
                       THEN updateRiskStatus(risk_reviews, i, status, "user", nreviews + 1)
                       ELSE risk_reviews
  /\ nreviews' = nreviews + 1
  /\ UNCHANGED <<users_tzvira, last_time_key, spc, svar, swork, sstart, sbatch, swm, swrote,
                 safter, doneOnce, scanned, ignoredDecided, leftBehind>>
  /\ unchangedQueue

InitStatus ==
  /\ InitQueueIdle
  /\ users_tzvira = <<UsersRow(1, 1), UsersRow(2, 2)>>
  /\ InitScanners
  /\ InitTextOff
  /\ InitTotalOff
  /\ InitPostOff

StatusStep ==
  \/ \E s \in Scanners : IncrLoadWatermark(s) /\ NoRunInFlight
  \/ \E s \in Scanners : IncrFetch(s)
  \/ \E s \in Scanners : IncrUpsert(s)
  \/ \E s \in Scanners : IncrSaveWatermark(s)
  \/ \E s \in Scanners : ScannerExit(s)
  \/ UpdateRiskStatusCall

NextStatus == StatusStep /\ UNCHANGED <<textVars, totalVars, postVars>>

SpecStatus == InitStatus /\ [][NextStatus]_vars

\* C35: every risk_reviews row has reviewed_at set exactly when its status is
\* reviewed or dismissed, and null when its status is pending.
C35_ReviewedAtMatchesStatus ==
  \A i \in 1..Len(risk_reviews) :
    /\ risk_reviews[i].status \in ReviewStatus
    /\ risk_reviews[i].status \in {"reviewed", "dismissed"} <=> risk_reviews[i].reviewed_at > 0
    /\ risk_reviews[i].status = "pending" => risk_reviews[i].reviewed_at = 0

\* after two update_risk_status calls and a finished scan, an item that a
\* reviewer set to pending has reviewed_at null
C35_Witness ==
  /\ nreviews >= 2
  /\ \E i \in 1..Len(risk_reviews) :
       /\ risk_reviews[i].status = "pending"
       /\ risk_reviews[i].reviewer = "user"
       /\ risk_reviews[i].reviewed_at = 0
  /\ \E s \in Scanners : spc[s] = "done" /\ svar[s] = "edge"


(***************************************************************************)
(* scan_incremental over one record with a drawn risk_phrases table whose  *)
(* patterns may fail to compile.                                           *)
(***************************************************************************)
\* pattern texts: a literal, a literal "(", a regular expression, and a
\* regular expression new RegExp rejects
CompilePatterns == {<<"a">>, <<"(">>, <<"/", "b", "/">>, <<"/", "(", "/">>}

CompileTables ==
  UNION {{[i \in 1..n |-> [id |-> i, pattern_key |-> <<"k1", "k2", "k3", "k4">>[i],
                            pattern |-> ps[i], is_active |-> act[i]]] :
            ps \in [1..n -> CompilePatterns], act \in [1..n -> BOOLEAN]} :
         n \in 0..MaxPhrases}

\* scanIncremental: phrases = await fetchActivePhrases(admin); compiled =
\* phrases.map(compileRegex).filter(re !== null)
CompileLoad ==
  /\ tpc = "drawn"
  /\ tres' = [tres EXCEPT !.compiled = Compiled(fetchActivePhrases(tin.table))]
  /\ tpc' = "compiled"
  /\ UNCHANGED tin
  /\ unchangedStore

\* the loop over the batch and over compiled: `re.lastIndex = 0` on an entry
\* whose re is null throws a TypeError, which the handler answers with 500;
\* otherwise the matches of every entry are collected and the run goes on
CompileScan ==
  /\ tpc = "compiled"
  /\ IF \E i \in 1..Len(tres.compiled) : ~tres.compiled[i].re.ok
     THEN tpc' = "edge_500" /\ UNCHANGED tres
     ELSE /\ tpc' = "edge_ok"
          /\ tres' = [tres EXCEPT !.items = EdgeRowPayloads(UsersRow(1, tin.k), tres.compiled)]
  /\ UNCHANGED tin
  /\ unchangedStore

InitCompile ==
  /\ InitQueueIdle
  /\ users_tzvira = <<>>
  /\ InitScanners
  /\ InitTotalOff
  /\ InitPostOff
  /\ tin \in [table : CompileTables, k : 1..Len(Talks)]
  /\ tpc = "drawn"
  /\ tres = [compiled |-> <<>>, items |-> <<>>]

NextCompile ==
  \/ CompileLoad
  \/ CompileScan

SpecCompile == InitCompile /\ [][NextCompile]_vars

\* the rows of the drawn table that are active, and those of them whose
\* pattern compiles
ActiveRows == {r \in 1..Len(tin.table) : tin.table[r].is_active}
WellFormedRows == {r \in ActiveRows : compileRegex(tin.table[r].pattern).ok}

\* C36: a pattern that fails to compile is left out of the compiled ruleset,
\* every other active pattern is in it, and the scan ends { ok: true } with
\* the matches of the remaining patterns; it never ends as an error.
C36_MalformedPatternSkipped ==
  /\ tpc # "edge_500"
  /\ tpc \in {"compiled", "edge_ok"} =>
       /\ {tres.compiled[i].phrase.id : i \in 1..Len(tres.compiled)}
            = {tin.table[r].id : r \in WellFormedRows}
       /\ Len(tres.compiled) = Cardinality(WellFormedRows)
  /\ tpc = "edge_ok" =>
       \A r \in ActiveRows :
         Cardinality({k \in 1..Len(tres.items) :
                        tres.items[k].pattern_key = tin.table[r].pattern_key})
           = IF r \in WellFormedRows
             THEN Len(ExecAll(normalizeText(Talks[tin.k].text),
                              compileRegex(tin.table[r].pattern).lit, 0))
             ELSE 0

\* a scan ended { ok: true } with matches although an active pattern of the
\* table does not compile
C36_Witness ==
  /\ tpc = "edge_ok"
  /\ ActiveRows \ WellFormedRows # {}
  /\ tres.items # <<>>


(***************************************************************************)
(* The match loops over one text, one iteration at a time: the loop over   *)
(* re.exec(norm) of scanIncremental and the loop over indexOf of the       *)
(* payload builder. A text is a sequence of UTF-16 code units; "hi" "lo"   *)
(* are the two halves of one character outside the basic plane.            *)
(***************************************************************************)
CodeUnits == {"a", "b", "hi", "lo"}

\* strings: every "hi" is followed by its "lo" and every "lo" follows a "hi"
MatchTexts ==
  {t \in UNION {[1..n -> CodeUnits] : n \in 0..MaxChars} :
     \A i \in 1..Len(t) :
       /\ t[i] = "hi" => (i < Len(t) /\ t[i + 1] = "lo")
       /\ t[i] = "lo" => (i > 1 /\ t[i - 1] = "hi")}

\* the regular expressions compileRegex hands to the loop, all with the g
\* flag: the literal a, the empty pattern and a*, without and with the u flag
MatchRegexes == [kind : {"lit", "empty", "star"}, unicode : BOOLEAN]

\* index i (from 0) points at the second half of a character
InPair(S, i) == i >= 1 /\ i < Len(S) /\ S[i] = "hi" /\ S[i + 1] = "lo"

\* the number of "a" from index q on
RECURSIVE RunOfA(_, _)
RunOfA(S, q) == IF q < Len(S) /\ S[q + 1] = "a" THEN 1 + RunOfA(S, q + 1) ELSE 0

\* the pattern matches at index q
MatchesAt(S, re, q) == re.kind = "lit" => (q < Len(S) /\ S[q + 1] = "a")

MatchLen(S, re, q) ==
  IF re.kind = "lit" THEN 1 ELSE IF re.kind = "empty" THEN 0 ELSE RunOfA(S, q)

\* RegExp.prototype.exec of a global regular expression (RegExpBuiltinExec):
\* null, lastIndex reset to 0, when lastIndex is beyond the text or nothing
\* matches; with the u flag the input is the list of code points, so matching
\* from a lastIndex inside a character begins at that character's first half.
\* lastIndex becomes the end of the match; the index reported for a match
\* that began at such a backed-up position is lastIndex as it was (the
\* language specification) or the position matched (the engines)
exec(S, re, lastIndex) ==
  LET start == IF re.unicode /\ InPair(S, lastIndex) THEN lastIndex - 1 ELSE lastIndex
      cands == {q \in start..Len(S) :
                  /\ MatchesAt(S, re, q)
                  /\ re.unicode => ~InPair(S, q)}
      q     == CHOOSE c \in cands : \A d \in cands : c <= d
  IN  IF lastIndex > Len(S) \/ cands = {}
      THEN {[found |-> FALSE, index |-> 0, lastIndex |-> 0]}
      ELSE {[found |-> TRUE, index |-> i, lastIndex |-> q + MatchLen(S, re, q)] :
              i \in {q} \cup (IF q = start THEN {lastIndex} ELSE {})}

\* scanIncremental, one turn of `while ((m = re.exec(norm)) !== null)`: the
\* item is pushed and `if (re.lastIndex === m.index) re.lastIndex++`
MatchExec ==
  /\ tpc = "exec"
  /\ tres.iters < MaxIters
  /\ \E r \in exec(tin.text, tin.re, tres.lastIndex) :
       IF r.found
       THEN /\ tres' = [lastIndex |-> IF r.lastIndex = r.index THEN r.lastIndex + 1
                                      ELSE r.lastIndex,
                        iters |-> tres.iters + 1]
            /\ tpc' = "exec"
       ELSE /\ tres' = [tres EXCEPT !.lastIndex = 0]
            /\ tpc' = "done"
  /\ UNCHANGED tin
  /\ unchangedStore

\* risk_scan_build_payload.mjs, one turn of `while (true)`: idx =
\* hayLower.indexOf(needleLower, from); break when idx < 0; from = idx +
\* Math.max(1, needle.length)
MatchIndexOf ==
  /\ tpc = "indexOf"
  /\ tres.iters < MaxIters
  /\ LET idx == indexOf(toLowerCase(tin.text), toLowerCase(tin.needle), tres.lastIndex)
     IN  IF idx < 0
         THEN tpc' = "done" /\ UNCHANGED tres
         ELSE /\ tres' = [lastIndex |-> idx + Max(1, Len(tin.needle)),
                          iters |-> tres.iters + 1]
              /\ tpc' = "indexOf"
  /\ UNCHANGED tin
  /\ unchangedStore

\* the phrases of the payload builder are filtered to phrase.length > 0
MatchNeedles == {<<"a">>, <<"a", "b">>}

InitMatch ==
  /\ InitQueueIdle
  /\ users_tzvira = <<>>
  /\ InitScanners
  /\ InitTotalOff
  /\ InitPostOff
  /\ tin \in [loop : {"exec"}, text : MatchTexts, re : MatchRegexes, needle : {<<>>}]
         \cup [loop : {"indexOf"}, text : MatchTexts,
               re : {[kind |-> "lit", unicode |-> FALSE]}, needle : MatchNeedles]
  /\ tpc = tin.loop
  /\ tres = [lastIndex |-> 0, iters |-> 0]

NextMatch ==
  \/ MatchExec
  \/ MatchIndexOf

SpecMatch == InitMatch /\ [][NextMatch]_vars

\* C37: in both match loops the position strictly increases from one
\* iteration to the next, so a loop makes at most one iteration for each
\* position of the text and then ends.
C37_MatchLoopTerminates ==
  /\ [][(tpc' = tpc /\ tres' # tres) => tres'.lastIndex > tres.lastIndex]_vars
  /\ [](tpc \in {"exec", "indexOf", "done"} => tres.iters <= Len(tin.text) + 1)


(***************************************************************************)
(* The request handler of the edge function risk_engine (Deno.serve).      *)
(***************************************************************************)
\* the Authorization header of a request: absent, another scheme, a Bearer
\* token auth.getUser rejects, one it answers without a user, a valid one
AuthHeaders == {"none", "basic", "bearer_bad", "bearer_nouser", "bearer_ok"}

ValidBearer(auth) == auth = "bearer_ok"

HandlerActions == {"scan_incremental", "list_open_risks", "update_risk_status"}

\* payload: the query parameters of a GET, else the parsed body, {} when the
\* body is not JSON
Payload(req) ==
  IF req.method = "GET" \/ req.body = "json" THEN [action |-> req.action]
  ELSE [action |-> "undefined"]

\* getAction: one of the three actions, or null
getAction(payload) == IF payload.action \in HandlerActions THEN payload.action ELSE "null"

\* requireUser: null without a call when the header does not start with
\* "Bearer "; otherwise anonClient.auth.getUser(token), null on its error,
\* data.user ?? null otherwise
requireUser(authHeader) ==
  IF authHeader \notin {"bearer_bad", "bearer_nouser", "bearer_ok"}
  THEN [called |-> FALSE, user |-> "null"]
  ELSE [called |-> TRUE, user |-> IF authHeader = "bearer_ok" THEN "user" ELSE "null"]

\* the store calls each action makes with the service-role client
AdminCalls(action, outcome) ==
  IF action = "scan_incremental"
  THEN IF outcome = "error" THEN <<"risk_phrases">>
       ELSE <<"risk_phrases", "risk_scan_state", "users_tzvira", "risk_reviews",
              "risk_scan_state">>
  ELSE IF action = "list_open_risks" THEN <<"risk_reviews">>
  ELSE IF outcome = "invalid" THEN <<>> ELSE <<"risk_reviews">>

\* the status of the response an action ends with
StatusOf(action, outcome) ==
  IF outcome = "error" THEN 500
  ELSE IF action = "update_risk_status" /\ outcome = "invalid" THEN 400
  ELSE IF action = "update_risk_status" /\ outcome = "missing" THEN 404
  ELSE 200

\* a handler that goes on without a user
HandlerAuth_NoCheck ==
  /\ tpc = "received"
  /\ LET r == requireUser(tin.auth)
     IN  /\ tres' = [tres EXCEPT !.getUser = r.called, !.user = r.user, !.admin = TRUE]
         /\ tpc' = "authed"
  /\ UNCHANGED tin
  /\ unchangedStore

\* Deno.serve, lines 321-336: the anon client, user = await requireUser(anon,
\* authHeader), `if (!user) return unauthorized()`, and only then the
\* service-role client
HandlerAuth ==
  /\ tpc = "received"
  /\ LET r == requireUser(tin.auth)
     IN  IF r.user = "null"
         THEN /\ tres' = [tres EXCEPT !.getUser = r.called, !.status = 401]
              /\ tpc' = "answered"
         ELSE /\ tres' = [tres EXCEPT !.getUser = r.called, !.user = r.user, !.admin = TRUE]
              /\ tpc' = "authed"
  /\ UNCHANGED tin
  /\ unchangedStore

\* lines 338-343: the payload and getAction; 400 when the action is not one
\* of the three
HandlerGetAction ==
  /\ tpc = "authed"
  /\ LET action == getAction(Payload(tin))
     IN  IF action = "null"
         THEN tres' = [tres EXCEPT !.status = 400] /\ tpc' = "answered"
         ELSE tres' = [tres EXCEPT !.dispatched = action] /\ tpc' = "dispatched"
  /\ UNCHANGED tin
  /\ unchangedStore

\* lines 345-358 and the catch (360-362): the action runs with the
\* service-role client and its result, its own 400 or 404, or the 500 of a
\* thrown store error is returned
HandlerRun ==
  /\ tpc = "dispatched"
  /\ \E outcome \in {"ok", "error"}
              \cup (IF tres.dispatched = "update_risk_status" THEN {"invalid", "missing"}
                    ELSE {}) :
       tres' = [tres EXCEPT !.calls = AdminCalls(tres.dispatched, outcome),
                            !.status = StatusOf(tres.dispatched, outcome)]
  /\ tpc' = "answered"
  /\ UNCHANGED tin
  /\ unchangedStore

InitHandler ==
  /\ InitQueueIdle
  /\ users_tzvira = <<>>
  /\ InitScanners
  /\ InitTotalOff
  /\ InitPostOff
  /\ tin \in [auth : AuthHeaders, method : {"GET", "POST"}, body : {"json", "text"},
               action : HandlerActions \cup {"other"}]
  /\ tpc = "received"
  /\ tres = [getUser |-> FALSE, user |-> "null", admin |-> FALSE, dispatched |-> "null",
             calls |-> <<>>, status |-> 0]

NextHandler ==
  \/ HandlerAuth
  \/ HandlerGetAction
  \/ HandlerRun

SpecHandler == InitHandler /\ [][NextHandler]_vars

\* C38: for a request without a valid Bearer token the service-role client
\* is never created and makes no store call, no action is dispatched, and
\* the response is 401.
C38_NoServiceRoleWithoutToken ==
  ~ValidBearer(tin.auth) =>
    /\ ~tres.admin
    /\ tres.calls = <<>>
    /\ tres.dispatched = "null"
    /\ tpc \in {"received", "answered"}
    /\ tpc = "answered" => tres.status = 401

\* a scan_incremental request with a Bearer token that auth.getUser rejected
\* was answered 401
C38_Witness ==
  /\ tpc = "answered"
  /\ tin.auth = "bearer_bad" /\ tin.action = "scan_incremental"
  /\ tres.getUser
  /\ tres.status = 401

====
